---- MODULE Spec2Model ----
(***************************************************************************)
(* A model of factory/django.py: the Collector that gathers the unsaved    *)
(* model instances reachable through foreign keys, orders their tables,    *)
(* and DjangoModelFactory.create_batch, which bulk-inserts the buckets in  *)
(* that order.                                                             *)
(*                                                                         *)
(* Python values are modelled as follows.  A model class is a string (its  *)
(* name).  An instance is an object identity 1..MaxObjs; the heap gives    *)
(* each identity its class (cls), whether its pk is truthy (pk) and the    *)
(* value of each ForeignKey attribute (ref: 0 is Python's None).  A dict   *)
(* is the sequence of its items in insertion order.                        *)
(***************************************************************************)
EXTENDS Integers, Sequences, FiniteSets, TLC

\* largest number of model instances on the heap
MaxObjs == 4
\* largest size passed to create_batch
MaxBatch == 2
\* deepest recursion of collect the interpreter allows
MaxDepth == 8
\* largest number of model instances on the heap of a caller of the Collector
MaxHeap == 2
\* longest list such a caller passes to add or collect
MaxArgs == 2
\* largest number of add, add_dependency and collect calls it makes
MaxCalls == 2
\* largest number of create_batch calls that follow the first
MaxLater == 1
\* largest number of threads that call add on one Collector
MaxThreads == 2
\* largest number of receivers a test connects to the signals
MaxReceivers == 2
\* longest tuple of signals given to mute_signals
MaxSignals == 2
\* deepest nesting of with-blocks and decorated calls
MaxNesting == 2
\* largest number of connect, disconnect and send calls a test makes
MaxOps == 1
\* the passes of the loop of sort that are followed
MaxPasses == 6
\* largest number of calls on a Collector that is sorted among them
MaxSortedCalls == 3

\* Python's None, as a foreign-key value and as the 'source' argument
NoneObj == 0
NoneModel == "None"

-----------------------------------------------------------------------------
(* Model classes.  A schema lists its models in definition order, the      *)
(* ForeignKey fields of each model as opts.get_fields() yields them, and   *)
(* _meta.concrete_model of each model.                                     *)

FK(name, to, null) == [name |-> name, to |-> to, null |-> null]

\* tests/djapp/models.py: P, R (nullable FK to P), S (FK to R)
SchemaPRS ==
    [models |-> <<"P", "R", "S">>,
     fks |-> [m \in {"P", "R", "S"} |->
                CASE m = "P" -> <<>>
                  [] m = "R" -> <<FK("p", "P", TRUE)>>
                  [] m = "S" -> <<FK("r", "R", FALSE)>>],
     concrete |-> [m \in {"P", "R", "S"} |-> m]]

\* tests/djapp/models.py: DeleteTop, B1, B2, DeleteBottom (a diamond)
SchemaDelete ==
    [models |-> <<"DeleteTop", "B1", "B2", "DeleteBottom">>,
     fks |-> [m \in {"DeleteTop", "B1", "B2", "DeleteBottom"} |->
                CASE m = "DeleteTop" -> <<>>
                  [] m = "B1" -> <<FK("delete_top", "DeleteTop", FALSE)>>
                  [] m = "B2" -> <<FK("delete_top", "DeleteTop", FALSE)>>
                  [] m = "DeleteBottom" -> <<FK("b1", "B1", FALSE),
                                             FK("b2", "B2", FALSE)>>],
     concrete |-> [m \in {"DeleteTop", "B1", "B2", "DeleteBottom"} |-> m]]

\* Spec section 8, scenario 7: TableM has two foreign keys to TableR
SchemaTwoFK ==
    [models |-> <<"TableR", "TableM">>,
     fks |-> [m \in {"TableR", "TableM"} |->
                CASE m = "TableR" -> <<>>
                  [] m = "TableM" -> <<FK("r1", "TableR", FALSE),
                                       FK("r2", "TableR", FALSE)>>],
     concrete |-> [m \in {"TableR", "TableM"} |-> m]]

\* Spec section 8, properties 4 and 5: TableA references TableB (nullably or
\* not) and TableB references TableA non-nullably; TableC, outside the
\* cycle, references TableA
SchemaAB(null) ==
    [models |-> <<"TableA", "TableB", "TableC">>,
     fks |-> [m \in {"TableA", "TableB", "TableC"} |->
                CASE m = "TableA" -> <<FK("b", "TableB", null)>>
                  [] m = "TableB" -> <<FK("a", "TableA", FALSE)>>
                  [] m = "TableC" -> <<FK("a", "TableA", FALSE)>>],
     concrete |-> [m \in {"TableA", "TableB", "TableC"} |-> m]]

\* Spec section 3: a self-referencing table, referenced by another table
SchemaSelf ==
    [models |-> <<"Node", "Leaf">>,
     fks |-> [m \in {"Node", "Leaf"} |->
                CASE m = "Node" -> <<FK("parent", "Node", TRUE)>>
                  [] m = "Leaf" -> <<FK("node", "Node", FALSE)>>],
     concrete |-> [m \in {"Node", "Leaf"} |-> m]]

\* A proxy model: ProxyR._meta.concrete_model is TableR
SchemaProxy ==
    [models |-> <<"TableR", "ProxyR", "TableS">>,
     fks |-> [m \in {"TableR", "ProxyR", "TableS"} |->
                CASE m = "TableS" -> <<FK("r", "TableR", FALSE)>>
                  [] OTHER -> <<>>],
     concrete |-> [m \in {"TableR", "ProxyR", "TableS"} |->
                     IF m = "ProxyR" THEN "TableR" ELSE m]]

Schemas ==
    {SchemaPRS, SchemaDelete, SchemaTwoFK, SchemaAB(TRUE), SchemaAB(FALSE),
     SchemaSelf, SchemaProxy}

ModelsOf(sch) == {sch.models[i] : i \in 1..Len(sch.models)}

-----------------------------------------------------------------------------
(* The heap: the instances build_batch has built, numbered so that the    *)
(* batch itself comes first.  An instance with a pk is never read by the   *)
(* Collector, so its foreign keys are left None; an instance without one   *)
(* has a value in each non-nullable foreign key, an instance of the        *)
(* field's target (Django accepts any instance of the target's concrete    *)
(* model).  Instances that cannot be reached from the batch play no part   *)
(* and are left out.                                                       *)

RECURSIVE SeqProduct(_)
SeqProduct(sets) ==
    IF sets = <<>> THEN {<<>>}
    ELSE {<<h>> \o t : h \in Head(sets), t \in SeqProduct(Tail(sets))}

Position(sch, m) == CHOOSE i \in 1..Len(sch.models) : sch.models[i] = m

\* the classes of n instances of which the first k are the batch
ClassAssignments(sch, n, k) ==
    {c \in [1..n -> ModelsOf(sch)] :
        /\ \A o \in 1..k : c[o] = c[1]
        /\ \A o \in (k + 2)..n : Position(sch, c[o - 1]) <= Position(sch, c[o])}

FieldValues(sch, c, f) ==
    {o \in DOMAIN c : sch.concrete[c[o]] = sch.concrete[f.to]}
        \cup (IF f.null THEN {NoneObj} ELSE {})

RefAssignments(sch, c, p) ==
    SeqProduct([o \in DOMAIN c |->
        IF p[o]
        THEN {[i \in 1..Len(sch.fks[c[o]]) |-> NoneObj]}
        ELSE SeqProduct([i \in 1..Len(sch.fks[c[o]]) |->
                            FieldValues(sch, c, sch.fks[c[o]][i])])])

\* the instances r[o] names
Targets(r, o) == {r[o][i] : i \in DOMAIN r[o]} \ {NoneObj}

RECURSIVE Closure(_, _)
Closure(r, seen) ==
    LET more == seen \cup UNION {Targets(r, o) : o \in seen}
    IN  IF more = seen THEN seen ELSE Closure(r, more)

VARIABLES
    schema,             \* the model classes
    cls, pk, ref,       \* the heap
    models_to_create,   \* create_batch: the list build_batch returned
    data,               \* Collector.data, a dict: <<[model, objs], ...>>
    has_default_factory, \* TRUE while data is a defaultdict(list)
    dependencies,       \* Collector.dependencies: a set of <<model, model>>
    pc,                 \* where create_batch is
    bucket,             \* create_batch: the item of data.items() it is at
    exc,                \* the exception create_batch raised, or "none"
    todo,               \* the batches of the create_batch calls still to come
    frames,             \* the create_batch calls that wait for a call they made
    call                \* the last call made on the Collector from outside

collectorVars ==
    <<schema, cls, pk, ref, models_to_create, data, has_default_factory,
      dependencies, pc, bucket, exc, todo, frames, call>>

VARIABLES
    log,                \* the records the last operation gave to a logger
    threads             \* the threads that call add, each with its locals

VARIABLES
    mute_module,        \* the module mute_signals is imported from
    receivers,          \* signal.receivers of each signal
    sender_receivers_cache, \* signal.sender_receivers_cache of each signal
    muters,             \* the mute_signals objects alive
    scopes,             \* the with-blocks entered and not left, innermost first
    notified,           \* the receivers the last send has called
    raised,             \* the exception on its way out of the with-blocks
    ops                 \* the connect, disconnect and send calls made so far

signalVars == <<mute_module, receivers, sender_receivers_cache, muters, scopes,
                notified, raised, ops>>

VARIABLES
    factory_module,     \* the module DjangoModelFactory is imported from
    _LAZY_LOADS,        \* the module's dict _LAZY_LOADS
    meta,               \* cls._meta: the options of the factory class
    _original_params,   \* cls._original_params
    table,              \* the rows of the model's table
    manager_calls,      \* the calls the last _create made on the manager
    outcome,            \* what the last call returned or raised
    local_fields,       \* model._meta.local_fields: the attributes of each
    suppressed          \* the suppress_autotime blocks entered and not left

factoryVars ==
    <<factory_module, _LAZY_LOADS, meta, _original_params, table,
      manager_calls, outcome, local_fields, suppressed>>

\* the variables the single-threaded callers of the Collector leave alone
otherVars == <<log, threads, signalVars, factoryVars>>

vars == <<collectorVars, otherVars>>

\* Python's empty dict, as the sequence of its items
EmptyDict == <<>>

\* no send was made
NoSend == [signal |-> "None", receivers |-> <<>>]

\* no signal has a receiver and none is muted
InitNoSignals ==
    /\ mute_module = "None"
    /\ receivers = EmptyDict
    /\ sender_receivers_cache = EmptyDict
    /\ muters = <<>>
    /\ scopes = <<>>
    /\ notified = NoSend
    /\ raised = "none"
    /\ ops = 0

\* the value of a call that was not made
NoOutcome == [op |-> "None"]

\* no factory class is in use and no model has its fields suppressed
InitNoFactory ==
    /\ factory_module = "None"
    /\ _LAZY_LOADS = EmptyDict
    /\ meta = EmptyDict
    /\ _original_params = EmptyDict
    /\ table = {}
    /\ manager_calls = <<>>
    /\ outcome = NoOutcome
    /\ local_fields = EmptyDict
    /\ suppressed = <<>>

\* nothing but a single-threaded caller of the Collector is running
InitOther ==
    /\ log = <<>>
    /\ threads = <<>>
    /\ InitNoSignals
    /\ InitNoFactory

Objs == DOMAIN cls

\* a call made on the Collector from outside create_batch: its arguments,
\* the value it returned, how many calls were made so far and whether the
\* call before it was the same
Call(op, objs, source, dependency, nullable, reverse_dependency, ret, n) ==
    [op |-> op, objs |-> objs, source |-> source, dependency |-> dependency,
     nullable |-> nullable, reverse_dependency |-> reverse_dependency,
     ret |-> ret, n |-> n, again |-> FALSE]

\* two calls with the same arguments
SameArguments(a, b) ==
    /\ a.op = b.op /\ a.objs = b.objs /\ a.source = b.source
    /\ a.dependency = b.dependency /\ a.nullable = b.nullable
    /\ a.reverse_dependency = b.reverse_dependency

\* no such call was made
NoCall == Call("none", <<>>, NoneModel, NoneModel, FALSE, FALSE, <<>>, 0)

Min(a, b) == IF a < b THEN a ELSE b

InitHeap ==
    /\ schema \in Schemas
    /\ \E n \in 1..MaxObjs : \E k \in 1..Min(n, MaxBatch) :
        /\ cls \in ClassAssignments(schema, n, k)
        /\ pk \in [1..n -> BOOLEAN]
        /\ ref \in RefAssignments(schema, cls, pk)
        /\ Closure(ref, 1..k) = 1..n
        /\ models_to_create = [i \in 1..k |-> i]

Init ==
    /\ InitHeap
    /\ data = <<>>
    /\ has_default_factory = TRUE
    /\ dependencies = {}
    /\ pc = "collect"
    /\ bucket = 1
    /\ exc = "none"
    /\ todo = <<>>
    /\ frames = <<>>
    /\ call = NoCall
    /\ InitOther

-----------------------------------------------------------------------------
(* dict operations on a sequence of items *)

Keys(d) == [i \in DOMAIN d |-> d[i].model]
HasKey(d, m) == \E i \in DOMAIN d : d[i].model = m
IndexOf(d, m) == CHOOSE i \in DOMAIN d : d[i].model = m
GetItem(d, m) == d[IndexOf(d, m)].objs
\* a setdefault that assigns v also when the key is there
SetDefault_assign(d, m, v) ==
    IF HasKey(d, m) THEN [d EXCEPT ![IndexOf(d, m)].objs = v]
    ELSE Append(d, [model |-> m, objs |-> v])

SetDefault(d, m, v) ==
    IF HasKey(d, m) THEN d ELSE Append(d, [model |-> m, objs |-> v])
Range(s) == {s[i] : i \in DOMAIN s}

-----------------------------------------------------------------------------
(* The Collector.  A collector c is the record of its fields and of the    *)
(* exception raised so far ("none" while none was): an operation on a      *)
(* collector that has raised does nothing more.                            *)

\* a Collector whose data and dependencies are those of the Collector made
\* before it
SharedCollector ==
    [data |-> data, has_default_factory |-> has_default_factory,
     dependencies |-> dependencies, exc |-> "none"]

\* Collector.__init__
NewCollector ==
    [data |-> <<>>, has_default_factory |-> TRUE, dependencies |-> {},
     exc |-> "none"]

concrete_model(m) == schema.concrete[m]

get_candidate_relations_to_delete(model) == schema.fks[model]

\* an add_dependency that records the edge between the models as given
add_dependency_as_given(c, model, dependency, reverse_dependency) ==
    LET m == IF reverse_dependency THEN dependency ELSE model
        d == IF reverse_dependency THEN model ELSE dependency
        c1 == [c EXCEPT !.dependencies = @ \cup {<<m, d>>}]
    IN  [c1 EXCEPT !.data = SetDefault(@, d, <<>>)]

\* an add_dependency that records the edge and gives the dependency no entry
\* in data
add_dependency_no_key(c, model, dependency, reverse_dependency) ==
    LET m == IF reverse_dependency THEN dependency ELSE model
        d == IF reverse_dependency THEN model ELSE dependency
    IN  [c EXCEPT !.dependencies =
                      @ \cup {<<concrete_model(m), concrete_model(d)>>}]

\* an add_dependency that gives setdefault a list of its own making
add_dependency_list(c, model, dependency, reverse_dependency) ==
    LET m == IF reverse_dependency THEN dependency ELSE model
        d == IF reverse_dependency THEN model ELSE dependency
        c1 == [c EXCEPT !.dependencies =
                            @ \cup {<<concrete_model(m), concrete_model(d)>>}]
    IN  [c1 EXCEPT !.data = SetDefault(@, d, <<>>)]

\* Collector.add_dependency: the edge is added first; data.default_factory
\* is an attribute of a defaultdict only
add_dependency(c, model, dependency, reverse_dependency) ==
    LET m == IF reverse_dependency THEN dependency ELSE model
        d == IF reverse_dependency THEN model ELSE dependency
        c1 == [c EXCEPT !.dependencies =
                            @ \cup {<<concrete_model(m), concrete_model(d)>>}]
    IN  IF c.has_default_factory
        THEN [c1 EXCEPT !.data = SetDefault(@, d, <<>>)]
        ELSE [c1 EXCEPT !.exc = "AttributeError"]

\* an add without its first two lines: objs[0] raises IndexError on an empty
\* list
add_no_guard(c, objs, source, nullable, reverse_dependency) ==
    IF objs = <<>>
    THEN [c |-> [c EXCEPT !.exc = "IndexError"], new_objs |-> <<>>]
    ELSE
    LET model == cls[objs[1]]
        d1 == SetDefault(c.data, model, <<>>)
        instances == GetItem(d1, model)
        lookup == Range(instances)
        IsNew(obj) == ~pk[obj] /\ obj \notin lookup
        new_objs == SelectSeq(objs, IsNew)
        c2 == [c EXCEPT !.data =
                 [d1 EXCEPT ![IndexOf(d1, model)].objs = instances \o new_objs]]
    IN  [c |-> IF source # NoneModel /\ ~nullable
               THEN add_dependency(c2, source, model, reverse_dependency)
               ELSE c2,
         new_objs |-> new_objs]

\* an add that records the dependency only when it added a record
add_edge_if_new(c, objs, source, nullable, reverse_dependency) ==
    IF objs = <<>> THEN [c |-> c, new_objs |-> <<>>]
    ELSE
    LET model == cls[objs[1]]
        d1 == SetDefault(c.data, model, <<>>)
        instances == GetItem(d1, model)
        lookup == Range(instances)
        IsNew(obj) == ~pk[obj] /\ obj \notin lookup
        new_objs == SelectSeq(objs, IsNew)
        c2 == [c EXCEPT !.data =
                 [d1 EXCEPT ![IndexOf(d1, model)].objs = instances \o new_objs]]
    IN  [c |-> IF source # NoneModel /\ ~nullable /\ new_objs # <<>>
               THEN add_dependency(c2, source, model, reverse_dependency)
               ELSE c2,
         new_objs |-> new_objs]

\* an add that does not skip the records that have a pk
add_persisted(c, objs, source, nullable, reverse_dependency) ==
    IF objs = <<>> THEN [c |-> c, new_objs |-> <<>>]
    ELSE
    LET model == cls[objs[1]]
        d1 == SetDefault(c.data, model, <<>>)
        instances == GetItem(d1, model)
        lookup == Range(instances)
        IsNew(obj) == obj \notin lookup
        new_objs == SelectSeq(objs, IsNew)
        c2 == [c EXCEPT !.data =
                 [d1 EXCEPT ![IndexOf(d1, model)].objs = instances \o new_objs]]
    IN  [c |-> IF source # NoneModel /\ ~nullable
               THEN add_dependency(c2, source, model, reverse_dependency)
               ELSE c2,
         new_objs |-> new_objs]

\* an add that does not look the records up in the bucket
add_no_lookup(c, objs, source, nullable, reverse_dependency) ==
    IF objs = <<>> THEN [c |-> c, new_objs |-> <<>>]
    ELSE
    LET model == cls[objs[1]]
        d1 == SetDefault(c.data, model, <<>>)
        instances == GetItem(d1, model)
        IsNew(obj) == ~pk[obj]
        new_objs == SelectSeq(objs, IsNew)
        c2 == [c EXCEPT !.data =
                 [d1 EXCEPT ![IndexOf(d1, model)].objs = instances \o new_objs]]
    IN  [c |-> IF source # NoneModel /\ ~nullable
               THEN add_dependency(c2, source, model, reverse_dependency)
               ELSE c2,
         new_objs |-> new_objs]

\* Collector.add: returns the collector and new_objs
add(c, objs, source, nullable, reverse_dependency) ==
    IF objs = <<>> THEN [c |-> c, new_objs |-> <<>>]
    ELSE
    LET model == cls[objs[1]]
    IN  IF ~HasKey(c.data, model) /\ ~c.has_default_factory
        THEN [c |-> [c EXCEPT !.exc = "KeyError"], new_objs |-> <<>>]
        ELSE
        LET d1 == SetDefault(c.data, model, <<>>)
            instances == GetItem(d1, model)
            lookup == Range(instances)
            IsNew(obj) == ~pk[obj] /\ obj \notin lookup
            new_objs == SelectSeq(objs, IsNew)
            c2 == [c EXCEPT !.data =
                     [d1 EXCEPT ![IndexOf(d1, model)].objs = instances \o new_objs]]
        IN  [c |-> IF source # NoneModel /\ ~nullable
                   THEN add_dependency(c2, source, model, reverse_dependency)
                   ELSE c2,
             new_objs |-> new_objs]

\* getattr(obj, related.name) for each obj of new_objs, keeping the truthy
\* values
collected_objs(new_objs, r) ==
    LET val(k) == ref[new_objs[k]][r]
        Truthy(k) == val(k) # NoneObj
        picked == SelectSeq([k \in DOMAIN new_objs |-> k], Truthy)
    IN  [j \in DOMAIN picked |-> val(picked[j])]

\* Collector.collect; collect_related is its loop over the candidate
\* relations from the r-th on, where new_objs is what the previous pass left
\* in it: the value collect returned, which is always None
\* a collect that goes on when add returned nothing, and follows the foreign
\* keys of all of objs
RECURSIVE collect_all_objs(_, _, _, _, _, _), collect_all_related(_, _, _, _, _, _)
collect_all_objs(c, objs, source, nullable, reverse_dependency, depth) ==
    IF depth > MaxDepth THEN [c EXCEPT !.exc = "RecursionError"]
    ELSE
    LET a == add(c, objs, source, nullable, reverse_dependency)
    IN  IF a.c.exc # "none" \/ objs = <<>> THEN a.c
        ELSE collect_all_related(a.c, cls[objs[1]], objs, FALSE, 1, depth)

collect_all_related(c, model, new_objs, new_objs_is_None, r, depth) ==
    IF c.exc # "none" \/ r > Len(get_candidate_relations_to_delete(model)) THEN c
    ELSE IF new_objs_is_None THEN [c EXCEPT !.exc = "TypeError"]
    ELSE collect_all_related(
            collect_all_objs(c, collected_objs(new_objs, r), model, FALSE, FALSE,
                             depth + 1),
            model, <<>>, TRUE, r + 1, depth)

\* depth counts the calls of collect that have not returned: the interpreter
\* raises RecursionError past its limit
RECURSIVE collect(_, _, _, _, _, _), collect_related(_, _, _, _, _, _)
collect(c, objs, source, nullable, reverse_dependency, depth) ==
    IF depth > MaxDepth THEN [c EXCEPT !.exc = "RecursionError"]
    ELSE
    LET a == add(c, objs, source, nullable, reverse_dependency)
    IN  IF a.c.exc # "none" \/ a.new_objs = <<>> THEN a.c
        ELSE collect_related(a.c, cls[a.new_objs[1]], a.new_objs, FALSE, 1, depth)

collect_related(c, model, new_objs, new_objs_is_None, r, depth) ==
    IF c.exc # "none" \/ r > Len(get_candidate_relations_to_delete(model)) THEN c
    ELSE IF new_objs_is_None THEN [c EXCEPT !.exc = "TypeError"]
    ELSE collect_related(
            collect(c, collected_objs(new_objs, r), model, FALSE, FALSE, depth + 1),
            model, <<>>, TRUE, r + 1, depth)

\* a pass that sets found also for a model that is sorted already
RECURSIVE sort_pass_found(_, _, _, _)
sort_pass_found(c, models, st, i) ==
    IF i > Len(models) THEN st
    ELSE
    LET model == models[i]
        deps == {e[2] : e \in {e \in c.dependencies : e[1] = concrete_model(model)}}
    IN  IF model \in Range(st.sorted_models)
        THEN sort_pass_found(c, models, [st EXCEPT !.found = TRUE], i + 1)
        ELSE IF ~(deps # {} /\ deps \ st.concrete_models # {})
        THEN sort_pass_found(c, models,
                [st EXCEPT
                   !.sorted_models = Append(@, model),
                   !.concrete_models = @ \cup {concrete_model(model)},
                   !.found = TRUE], i + 1)
        ELSE sort_pass_found(c, models, st, i + 1)

\* Collector.sort: one pass of the for loop from the i-th model on
RECURSIVE sort_pass(_, _, _, _)
sort_pass(c, models, st, i) ==
    IF i > Len(models) THEN st
    ELSE
    LET model == models[i]
        deps == {e[2] : e \in {e \in c.dependencies : e[1] = concrete_model(model)}}
    IN  IF model \in Range(st.sorted_models) THEN sort_pass(c, models, st, i + 1)
        ELSE IF ~(deps # {} /\ deps \ st.concrete_models # {})
        THEN sort_pass(c, models,
                [st EXCEPT
                   !.sorted_models = Append(@, model),
                   !.concrete_models = @ \cup {concrete_model(model)},
                   !.found = TRUE], i + 1)
        ELSE sort_pass(c, models, st, i + 1)

\* the local variables of sort before its loop; passes counts the passes of
\* the while loop
SortState == [sorted_models |-> <<>>, concrete_models |-> {}, found |-> FALSE,
              passes |-> 0]

\* Collector.sort: the while loop; found stays FALSE after the pass on
\* which sort returns from inside the loop.  The loop is followed for
\* MaxPasses passes
RECURSIVE sort_loop(_, _, _)
sort_loop(c, models, st) ==
    IF Len(st.sorted_models) < Len(models) /\ st.passes < MaxPasses
    THEN LET st2 == sort_pass(c, models,
                              [st EXCEPT !.found = FALSE, !.passes = @ + 1], 1)
         IN  IF ~st2.found THEN st2 ELSE sort_loop(c, models, st2)
    ELSE [st EXCEPT !.found = TRUE]

\* a dict whose lists are the lists of data extended by themselves
sorted_data_extended(c, sorted_models) ==
    [k \in DOMAIN sorted_models |->
        [model |-> sorted_models[k],
         objs |-> GetItem(c.data, sorted_models[k])
                     \o GetItem(c.data, sorted_models[k])]]

\* self.data = {model: self.data[model] for model in sorted_models}
sorted_data(c, sorted_models) ==
    [k \in DOMAIN sorted_models |->
        [model |-> sorted_models[k], objs |-> GetItem(c.data, sorted_models[k])]]

\* a sort that falls through to the final assignment when a pass finds
\* nothing, instead of returning
sort_break(c) ==
    LET st == sort_loop(c, Keys(c.data), SortState)
    IN  [c EXCEPT !.data = sorted_data(c, st.sorted_models),
                  !.has_default_factory = FALSE]

\* Collector.sort
sort(c) ==
    LET st == sort_loop(c, Keys(c.data), SortState)
    IN  IF ~st.found THEN c
        ELSE [c EXCEPT !.data = sorted_data(c, st.sorted_models),
                       !.has_default_factory = FALSE]

-----------------------------------------------------------------------------
(* DjangoModelFactory.create_batch on a database that supports bulk        *)
(* insert.                                                                 *)

Collector == [data |-> data, has_default_factory |-> has_default_factory,
              dependencies |-> dependencies, exc |-> exc]

SetCollector(c, next_pc) ==
    /\ data' = c.data
    /\ has_default_factory' = c.has_default_factory
    /\ dependencies' = c.dependencies
    /\ exc' = c.exc
    /\ pc' = IF c.exc = "none" THEN next_pc ELSE "raised"

\* collector = Collector('default'); collector.collect(models_to_create)
Collect ==
    /\ pc = "collect"
    /\ SetCollector(collect(NewCollector, models_to_create, NoneModel, FALSE,
                             FALSE, 1), "sort")
    /\ bucket' = bucket
    /\ UNCHANGED <<schema, cls, pk, ref, models_to_create, todo, frames, call>>
    /\ UNCHANGED otherVars

\* collector.sort()
Sort ==
    /\ pc = "sort"
    /\ SetCollector(sort(Collector), "insert")
    /\ bucket' = 1
    /\ UNCHANGED <<schema, cls, pk, ref, models_to_create, todo, frames, call>>
    /\ UNCHANGED otherVars

\* the instances of objs that reference an instance without a pk
UnsavedRelated(objs) ==
    {o \in Range(objs) : \E t \in Targets(ref, o) : ~pk[t]}

\* what a signal was sent with, or bulk_create was called with
Event(event, model_cls, objs) ==
    [event |-> event, sender |-> model_cls, objs |-> objs]

\* a pass that sends post_save before it calls bulk_create
bucket_events_saved_first(model_cls, objs, inserted) ==
    [i \in DOMAIN objs |-> Event("pre_save", model_cls, <<objs[i]>>)]
    \o (IF inserted
        THEN [i \in DOMAIN objs |-> Event("post_save", model_cls, <<objs[i]>>)]
        ELSE <<>>)
    \o <<Event("bulk_create", model_cls, objs)>>

\* the sends and the call of one pass of the loop of create_batch, in
\* order: pre_save.send for each instance of objs, manager.bulk_create(objs)
\* and, unless bulk_create raised, post_save.send for each instance
bucket_events(model_cls, objs, inserted) ==
    [i \in DOMAIN objs |-> Event("pre_save", model_cls, <<objs[i]>>)]
    \o <<Event("bulk_create", model_cls, objs)>>
    \o (IF inserted
        THEN [i \in DOMAIN objs |-> Event("post_save", model_cls, <<objs[i]>>)]
        ELSE <<>>)

\* one pass of the loop over collector.data.items(): manager.bulk_create
\* refuses an instance whose related instance has no pk, inserts an instance
\* that has a pk under that pk, which the database refuses when the row is
\* there, and otherwise gives every instance of objs its pk
InsertBucket ==
    /\ pc = "insert"
    /\ bucket <= Len(data)
    /\ LET objs == data[bucket].objs
       IN  IF UnsavedRelated(objs) # {}
           THEN /\ exc' = "ValueError"
                /\ pc' = "raised"
                /\ log' = log \o bucket_events(data[bucket].model, objs, FALSE)
                /\ UNCHANGED <<pk, bucket>>
           ELSE IF \E o \in Range(objs) : pk[o]
           THEN /\ exc' = "IntegrityError"
                /\ pc' = "raised"
                /\ log' = log \o bucket_events(data[bucket].model, objs, FALSE)
                /\ UNCHANGED <<pk, bucket>>
           ELSE /\ pk' = [o \in Objs |-> pk[o] \/ o \in Range(objs)]
                /\ bucket' = bucket + 1
                /\ log' = log \o bucket_events(data[bucket].model, objs, TRUE)
                /\ UNCHANGED <<exc, pc>>
    /\ UNCHANGED <<schema, cls, ref, models_to_create, data,
                   has_default_factory, dependencies, todo, frames, call>>
    /\ UNCHANGED <<threads, signalVars, factoryVars>>

\* return models_to_create
Return ==
    /\ pc = "insert"
    /\ bucket > Len(data)
    /\ pc' = "done"
    /\ UNCHANGED <<schema, cls, pk, ref, models_to_create, data,
                   has_default_factory, dependencies, exc, bucket, todo, frames,
                   call>>
    /\ UNCHANGED otherVars

Next == Collect \/ Sort \/ InsertBucket \/ Return

Spec == Init /\ [][Next]_vars

-----------------------------------------------------------------------------
(* A caller of the Collector other than create_batch: it makes any calls   *)
(* of add, add_dependency and collect on one Collector, in any order and   *)
(* with any arguments, catching what they raise, and ends with sort.  Its  *)
(* heap holds any instances: one with a pk may reference one without.      *)

InitHeapCalls ==
    /\ schema \in Schemas
    /\ \E n \in 1..MaxHeap :
        /\ cls \in ClassAssignments(schema, n, 0)
        /\ pk \in [1..n -> BOOLEAN]
        /\ ref \in RefAssignments(schema, cls, [o \in 1..n |-> FALSE])
    /\ models_to_create = <<>>

InitCalls ==
    /\ InitHeapCalls
    /\ data = NewCollector.data
    /\ has_default_factory = NewCollector.has_default_factory
    /\ dependencies = NewCollector.dependencies
    /\ exc = NewCollector.exc
    /\ pc = "calls"
    /\ bucket = 1
    /\ todo = <<>>
    /\ frames = <<>>
    /\ call = NoCall
    /\ InitOther

\* the lists of instances of one concrete model, the empty one included
ObjLists ==
    {objs \in UNION {[1..l -> Objs] : l \in 0..MaxArgs} :
        \A i, j \in DOMAIN objs :
            concrete_model(cls[objs[i]]) = concrete_model(cls[objs[j]])}

Sources == ModelsOf(schema) \cup {NoneModel}

\* the collector a call starts from, and what it leaves
Receiver == [Collector EXCEPT !.exc = "none"]

Called(c, made) ==
    /\ data' = c.data
    /\ has_default_factory' = c.has_default_factory
    /\ dependencies' = c.dependencies
    /\ exc' = c.exc
    /\ call' = [made EXCEPT !.again = SameArguments(call, made)]
    /\ UNCHANGED <<schema, cls, pk, ref, models_to_create, bucket, todo, frames>>
    /\ UNCHANGED otherVars

\* collector.add(objs, source, nullable, reverse_dependency)
AddCall ==
    /\ pc = "calls" /\ call.n < MaxCalls
    /\ \E objs \in ObjLists, source \in Sources, nullable \in BOOLEAN,
          reverse_dependency \in BOOLEAN :
        LET a == add(Receiver, objs, source, nullable, reverse_dependency)
        IN  Called(a.c, Call("add", objs, source, NoneModel, nullable,
                             reverse_dependency, a.new_objs, call.n + 1))
    /\ pc' = pc

\* collector.add_dependency(model, dependency, reverse_dependency)
AddDependencyCall ==
    /\ pc = "calls" /\ call.n < MaxCalls
    /\ \E model \in ModelsOf(schema), dependency \in ModelsOf(schema),
          reverse_dependency \in BOOLEAN :
        Called(add_dependency(Receiver, model, dependency, reverse_dependency),
               Call("add_dependency", <<>>, model, dependency, FALSE,
                    reverse_dependency, <<>>, call.n + 1))
    /\ pc' = pc

\* collector.collect(objs, source, nullable, reverse_dependency=...)
CollectCall ==
    /\ pc = "calls" /\ call.n < MaxCalls
    /\ \E objs \in ObjLists, source \in Sources, nullable \in BOOLEAN,
          reverse_dependency \in BOOLEAN :
        Called(collect(Receiver, objs, source, nullable, reverse_dependency, 1),
               Call("collect", objs, source, NoneModel, nullable,
                    reverse_dependency, <<>>, call.n + 1))
    /\ pc' = pc

\* collector.sort()
SortCall ==
    /\ pc = "calls"
    /\ Called(sort(Receiver),
              Call("sort", <<>>, NoneModel, NoneModel, FALSE, FALSE, <<>>,
                   call.n + 1))
    /\ pc' = "sorted"

-----------------------------------------------------------------------------
(* Several create_batch calls.  A later call is made after the one before  *)
(* has returned or raised, or by a pre_save or post_save receiver while    *)
(* the one before is in its loop over the buckets: that one waits, and     *)
(* goes on when the later call returns, or raises what it raised.  Each    *)
(* call has its own local variables; the variables of the model are those  *)
(* of the call that is running.  The instances a later call builds are not *)
(* referenced by those of an earlier one.                                  *)

\* the batches later calls can build: instances of one class without a pk
\* that the instances of c, the earlier batch, do not reach
LaterBatches(c) ==
    {b \in UNION {[1..l -> Objs] : l \in 1..MaxBatch} :
        /\ \A i \in DOMAIN b :
              /\ ~pk[b[i]]
              /\ cls[b[i]] = cls[b[1]]
              /\ b[i] \notin Closure(ref, Range(c))
        /\ \A i, j \in DOMAIN b : i < j => b[i] < b[j]}

InitBatches ==
    /\ schema \in Schemas
    /\ \E n \in 1..MaxObjs : \E k \in 1..Min(n, MaxBatch) :
        /\ cls \in ClassAssignments(schema, n, k)
        /\ pk \in [1..n -> BOOLEAN]
        /\ ref \in RefAssignments(schema, cls, pk)
        /\ models_to_create = [i \in 1..k |-> i]
    /\ todo \in UNION {[1..l -> LaterBatches(models_to_create)] : l \in 0..MaxLater}
    /\ \A i, j \in DOMAIN todo :
          i < j => todo[j] \in LaterBatches(todo[i])
    /\ Closure(ref, Range(models_to_create)
                      \cup UNION {Range(todo[i]) : i \in DOMAIN todo}) = Objs
    /\ data = <<>>
    /\ has_default_factory = TRUE
    /\ dependencies = {}
    /\ pc = "collect"
    /\ bucket = 1
    /\ exc = "none"
    /\ frames = <<>>
    /\ call = NoCall
    /\ InitOther

\* the local variables of a create_batch call
Frame == [models_to_create |-> models_to_create, data |-> data,
          has_default_factory |-> has_default_factory,
          dependencies |-> dependencies, bucket |-> bucket]

\* cls.build_batch(size, **kwargs) of a later call
BuildBatch ==
    /\ todo # <<>>
    /\ models_to_create' = Head(todo)
    /\ todo' = Tail(todo)
    /\ pc' = "collect"
    /\ exc' = "none"
    /\ UNCHANGED <<schema, cls, pk, ref, data, has_default_factory,
                   dependencies, bucket, call>>
    /\ UNCHANGED otherVars

\* create_batch is called again after it has returned or raised
CreateBatchAgain ==
    /\ pc \in {"done", "raised"} /\ frames = <<>>
    /\ BuildBatch
    /\ frames' = frames

\* create_batch is called by a receiver of pre_save or post_save
CreateBatchNested ==
    /\ pc = "insert"
    /\ BuildBatch
    /\ frames' = <<Frame>> \o frames

\* a create_batch called by a receiver has returned, or has raised: the
\* call that waited goes on in its loop, or raises the same
ReturnNested ==
    /\ pc \in {"done", "raised"} /\ frames # <<>>
    /\ models_to_create' = Head(frames).models_to_create
    /\ data' = Head(frames).data
    /\ has_default_factory' = Head(frames).has_default_factory
    /\ dependencies' = Head(frames).dependencies
    /\ bucket' = Head(frames).bucket
    /\ frames' = Tail(frames)
    /\ pc' = IF pc = "done" THEN "insert" ELSE "raised"
    /\ UNCHANGED <<schema, cls, pk, ref, exc, todo, call>>
    /\ UNCHANGED otherVars

NextBatches ==
    \/ Collect \/ Sort \/ InsertBucket \/ Return
    \/ CreateBatchAgain \/ CreateBatchNested \/ ReturnNested

SpecBatches == InitBatches /\ [][NextBatches]_vars

NextCalls == AddCall \/ AddDependencyCall \/ CollectCall \/ SortCall

SpecCalls == InitCalls /\ [][NextCalls]_vars
-----------------------------------------------------------------------------
(* Threads that call add on one Collector.  The Collector takes no lock,   *)
(* so a thread can be suspended between any two statements of add; the     *)
(* steps below are cut where add reads or writes the Collector: the        *)
(* statements up to the end of the loop read data, instances.extend writes *)
(* the bucket, add_dependency writes dependencies and data.                *)

Threads == 1..MaxThreads

\* a thread that has not called add yet
ReadyThread ==
    [pc |-> "ready", objs |-> <<>>, source |-> NoneModel, nullable |-> FALSE,
     reverse_dependency |-> FALSE, model |-> NoneModel, lookup |-> {},
     new_objs |-> <<>>, ret |-> <<>>, extended |-> {}]

\* add reads the class and the pk of an instance and none of its foreign
\* keys, which are left None here
ThreadSchemas == {SchemaPRS, SchemaProxy}

InitThreads ==
    /\ schema \in ThreadSchemas
    /\ \E n \in 1..MaxHeap :
        /\ cls \in ClassAssignments(schema, n, 0)
        /\ pk \in [1..n -> BOOLEAN]
        /\ ref \in RefAssignments(schema, cls, [o \in 1..n |-> TRUE])
    /\ models_to_create = <<>>
    /\ data = NewCollector.data
    /\ has_default_factory = NewCollector.has_default_factory
    /\ dependencies = NewCollector.dependencies
    /\ exc = NewCollector.exc
    /\ pc = "threads"
    /\ bucket = 1
    /\ todo = <<>>
    /\ frames = <<>>
    /\ call = NoCall
    /\ log = <<>>
    /\ threads = [t \in Threads |-> ReadyThread]
    /\ InitNoSignals
    /\ InitNoFactory

\* the threads whose extend has run
Extended == {t \in DOMAIN threads : threads[t].pc \in {"dependency", "returned"}}

\* the loop of add over objs
add_new_objs(objs, lookup) ==
    LET IsNew(obj) == ~pk[obj] /\ obj \notin lookup
    IN  SelectSeq(objs, IsNew)

\* an extend that leaves out what the bucket holds by now
add_extend_unseen(instances, new_objs) ==
    LET Unseen(obj) == obj \notin Range(instances)
    IN  instances \o SelectSeq(new_objs, Unseen)

\* instances.extend(new_objs)
add_extend(instances, new_objs) == instances \o new_objs

\* add(objs, source, nullable), from its first statement to the end of its
\* loop; reverse_dependency keeps its default
AddBegin(t) ==
    /\ threads[t].pc = "ready"
    /\ \E objs \in ObjLists, source \in Sources, nullable \in BOOLEAN,
          reverse_dependency \in {FALSE} :
        LET th == [threads[t] EXCEPT !.objs = objs, !.source = source,
                       !.nullable = nullable,
                       !.reverse_dependency = reverse_dependency,
                       !.extended = Extended]
        IN  IF objs = <<>>
            THEN /\ threads' = [threads EXCEPT ![t] = [th EXCEPT !.pc = "returned"]]
                 /\ data' = data
            ELSE LET model == cls[objs[1]]
                     d1 == SetDefault(data, model, <<>>)
                     lookup == Range(GetItem(d1, model))
                 IN  /\ data' = d1
                     /\ threads' = [threads EXCEPT ![t] =
                            [th EXCEPT !.pc = "extend", !.model = model,
                                       !.lookup = lookup,
                                       !.new_objs = add_new_objs(objs, lookup)]]
    /\ UNCHANGED <<schema, cls, pk, ref, models_to_create, has_default_factory,
                   dependencies, pc, bucket, exc, todo, frames, call, log,
                   signalVars, factoryVars>>

\* instances.extend(new_objs), and the return when no dependency is added
AddExtend(t) ==
    /\ threads[t].pc = "extend"
    /\ LET th == threads[t]
           i == IndexOf(data, th.model)
       IN  /\ data' = [data EXCEPT ![i].objs = add_extend(@, th.new_objs)]
           /\ threads' = [threads EXCEPT ![t] =
                  IF th.source # NoneModel /\ ~th.nullable
                  THEN [th EXCEPT !.pc = "dependency"]
                  ELSE [th EXCEPT !.pc = "returned", !.ret = th.new_objs]]
    /\ UNCHANGED <<schema, cls, pk, ref, models_to_create, has_default_factory,
                   dependencies, pc, bucket, exc, todo, frames, call, log,
                   signalVars, factoryVars>>

\* self.add_dependency(source, model, ...); return new_objs
AddDependency(t) ==
    /\ threads[t].pc = "dependency"
    /\ LET th == threads[t]
           c == add_dependency(Collector, th.source, th.model,
                               th.reverse_dependency)
       IN  /\ data' = c.data
           /\ dependencies' = c.dependencies
           /\ threads' = [threads EXCEPT ![t] =
                  [th EXCEPT !.pc = "returned", !.ret = th.new_objs]]
    /\ UNCHANGED <<schema, cls, pk, ref, models_to_create, has_default_factory,
                   pc, bucket, exc, todo, frames, call, log, signalVars,
                   factoryVars>>

NextThreads ==
    \E t \in Threads : AddBegin(t) \/ AddExtend(t) \/ AddDependency(t)

SpecThreads == InitThreads /\ [][NextThreads]_vars

-----------------------------------------------------------------------------
(* mute_signals.  A Django signal is modelled by what mute_signals and the *)
(* dispatcher read and write: its list of receivers and its cache of the   *)
(* receivers of the sender (one sender, use_caching as for the model       *)
(* signals).  connect appends a receiver that is not in the list,          *)
(* disconnect deletes its first entry, both clear the cache; send returns  *)
(* at once when the list is empty, and otherwise calls the cached          *)
(* receivers, computing and caching them from the list when there is no    *)
(* cache entry.  A mute_signals object is its tuple of signals and its     *)
(* dict paused; the objects alive are the decorators, which come first,    *)
(* and the object of each with-block entered and not left.                 *)

Signals == {"pre_save", "post_save"}

Receivers == 1..MaxReceivers

\* the tuples of signals given to mute_signals
SignalTuples == UNION {[1..l -> Signals] : l \in 0..MaxSignals}

\* the lists connect can have built: no receiver twice
ConnectedLists ==
    {l \in UNION {[1..n -> Receivers] : n \in 0..MaxReceivers} :
        \A i, j \in DOMAIN l : i # j => l[i] # l[j]}

NoCache == [cached |-> FALSE, receivers |-> <<>>]

\* the modules that define mute_signals
MuteModules == {"django.py", "django/utils.py"}

\* no Collector is in use
InitNoCollector ==
    /\ schema = SchemaPRS
    /\ cls = <<>> /\ pk = <<>> /\ ref = <<>>
    /\ models_to_create = <<>>
    /\ data = <<>>
    /\ has_default_factory = TRUE
    /\ dependencies = {}
    /\ bucket = 1
    /\ exc = "none"
    /\ todo = <<>>
    /\ frames = <<>>
    /\ call = NoCall
    /\ threads = <<>>

\* mute_signals.__init__
mute_signals(signals) == [signals |-> signals, paused |-> EmptyDict]

\* the number of decorators: one callable is decorated with mute_signals
Decorators == 1

InitSignals ==
    /\ InitNoCollector
    /\ InitNoFactory
    /\ pc = "signals"
    /\ log = <<>>
    /\ mute_module \in MuteModules
    /\ receivers \in [Signals -> ConnectedLists]
    /\ sender_receivers_cache = [s \in Signals |-> NoCache]
    /\ \E signals \in SignalTuples : muters = <<mute_signals(signals)>>
    /\ scopes = <<>>
    /\ notified = NoSend
    /\ raised = "none"
    /\ ops = 0

\* dict operations on paused, a sequence of items [signal, receivers]
HasSignal(d, s) == \E i \in DOMAIN d : d[i].signal = s
SetItem(d, s, v) ==
    IF HasSignal(d, s)
    THEN [i \in DOMAIN d |-> IF d[i].signal = s
                             THEN [signal |-> s, receivers |-> v] ELSE d[i]]
    ELSE Append(d, [signal |-> s, receivers |-> v])

LogRecord(msg, arg) == [msg |-> msg, arg |-> arg]

\* the state __enter__ and __exit__ work on: the mute_signals object, the
\* receivers and the caches of the signals, and the records logged
MuteState(m, r, c, l) == [m |-> m, receivers |-> r, cache |-> c, log |-> l]

\* an __enter__ that leaves the receivers of the signal in place
RECURSIVE __enter__keep(_, _)
__enter__keep(st, i) ==
    IF i > Len(st.m.signals) THEN st
    ELSE LET signal == st.m.signals[i]
         IN  __enter__keep(
                 [st EXCEPT
                    !.log = Append(@, LogRecord("Disabling", st.receivers[signal])),
                    !.m.paused = SetItem(@, signal, st.receivers[signal])],
                 i + 1)

\* mute_signals.__enter__, from the i-th signal of self.signals on
RECURSIVE __enter__(_, _)
__enter__(st, i) ==
    IF i > Len(st.m.signals) THEN st
    ELSE LET signal == st.m.signals[i]
         IN  __enter__(
                 [st EXCEPT
                    !.log = Append(@, LogRecord("Disabling", st.receivers[signal])),
                    !.m.paused = SetItem(@, signal, st.receivers[signal]),
                    !.receivers[signal] = <<>>],
                 i + 1)

\* an __exit__ that puts the paused receivers in front of the present ones
RECURSIVE __exit__prepend(_, _)
__exit__prepend(st, i) ==
    IF i > Len(st.m.paused) THEN [st EXCEPT !.m.paused = EmptyDict]
    ELSE LET signal == st.m.paused[i].signal
             paused == st.m.paused[i].receivers
         IN  __exit__prepend(
                 [st EXCEPT
                    !.log = Append(@, LogRecord("Restoring", paused)),
                    !.receivers[signal] = paused \o @,
                    !.cache[signal] = NoCache],
                 i + 1)

\* mute_signals.__exit__ of factory/django.py, from the i-th item of
\* self.paused on; self.paused = {} at the end
RECURSIVE __exit__(_, _)
__exit__(st, i) ==
    IF i > Len(st.m.paused) THEN [st EXCEPT !.m.paused = EmptyDict]
    ELSE LET signal == st.m.paused[i].signal
             paused == st.m.paused[i].receivers
         IN  __exit__(
                 [st EXCEPT
                    !.log = Append(@, LogRecord("Restoring", paused)),
                    !.receivers[signal] = @ \o paused,
                    !.cache[signal] = NoCache],
                 i + 1)

\* mute_signals.__exit__ of factory/django/utils.py
RECURSIVE utils__exit__(_, _)
utils__exit__(st, i) ==
    IF i > Len(st.m.paused) THEN [st EXCEPT !.m.paused = EmptyDict]
    ELSE LET signal == st.m.paused[i].signal
             paused == st.m.paused[i].receivers
         IN  utils__exit__(
                 [st EXCEPT
                    !.log = Append(@, LogRecord("Restoring", paused)),
                    !.receivers[signal] = paused,
                    !.cache[signal] = NoCache],
                 i + 1)

\* mute_signals.copy: a new object with the signals of the object m
copy(m) ==
    [muters |-> Append(muters, mute_signals(muters[m].signals)),
     obj |-> Len(muters) + 1]

\* a with-block entered: its object, whether it is the with-block of a
\* decorated call and, for the properties, the receivers before its
\* __enter__, the receivers connected since, and whether a with-block that
\* is not of a decorated call was entered in it
Scope(obj, decorated) ==
    [obj |-> obj, decorated |-> decorated, before |-> receivers, since |-> {},
     with_inside |-> FALSE]

\* the with statement enters the object obj of the objects ms
Enter(ms, obj, decorated) ==
    /\ Len(scopes) < MaxNesting
    /\ LET st == __enter__(MuteState(ms[obj], receivers,
                                     sender_receivers_cache, <<>>), 1)
       IN  /\ muters' = [ms EXCEPT ![obj] = st.m]
           /\ receivers' = st.receivers
           /\ sender_receivers_cache' = st.cache
           /\ log' = st.log
    /\ scopes' = <<Scope(obj, decorated)>> \o
                 [i \in DOMAIN scopes |->
                    [scopes[i] EXCEPT !.with_inside = @ \/ ~decorated]]
    /\ notified' = NoSend
    /\ raised' = "none"
    /\ UNCHANGED <<collectorVars, factoryVars, threads, mute_module, ops>>

\* with mute_signals(*signals):
With ==
    \E signals \in SignalTuples :
        Enter(Append(muters, mute_signals(signals)), Len(muters) + 1, FALSE)

\* a call of the decorated function or of a method of the decorated
\* factory: with self.copy():
Invoke ==
    \E d \in 1..Decorators :
        LET c == copy(d) IN Enter(c.muters, c.obj, TRUE)

\* the code in a with-block raises an exception
Raise ==
    /\ scopes # <<>> /\ raised = "none"
    /\ raised' = "Exception"
    /\ notified' = NoSend /\ log' = <<>>
    /\ UNCHANGED <<collectorVars, factoryVars, threads, mute_module, receivers,
                   sender_receivers_cache, muters, scopes, ops>>

\* the innermost with-block is left, by its end, by a return or by the
\* exception on its way: __exit__ returns None, so the exception goes on.
\* The object of a with statement is dropped with the block.
Leave ==
    /\ scopes # <<>>
    /\ LET obj == Head(scopes).obj
           st0 == MuteState(muters[obj], receivers, sender_receivers_cache, <<>>)
           st == IF mute_module = "django.py" THEN __exit__(st0, 1)
                 ELSE utils__exit__(st0, 1)
           ms == [muters EXCEPT ![obj] = st.m]
       IN  /\ muters' = IF obj > Decorators /\ obj = Len(ms)
                        THEN SubSeq(ms, 1, Len(ms) - 1) ELSE ms
           /\ receivers' = st.receivers
           /\ sender_receivers_cache' = st.cache
           /\ log' = st.log
    /\ raised' = raised
    /\ scopes' = Tail(scopes)
    /\ notified' = NoSend
    /\ UNCHANGED <<collectorVars, factoryVars, threads, mute_module, ops>>

\* signal.connect(receiver)
Connect ==
    /\ ops < MaxOps /\ ops' = ops + 1
    /\ \E s \in Signals, r \in Receivers :
        /\ receivers' = [receivers EXCEPT ![s] =
                IF r \in Range(@) THEN @ ELSE Append(@, r)]
        /\ sender_receivers_cache' = [sender_receivers_cache EXCEPT ![s] = NoCache]
        /\ scopes' = [i \in DOMAIN scopes |->
                        [scopes[i] EXCEPT !.since = @ \cup {<<s, r>>}]]
    /\ notified' = NoSend /\ raised' = "none" /\ log' = <<>>
    /\ UNCHANGED <<collectorVars, factoryVars, threads, mute_module, muters>>

\* the list l without its first entry r
WithoutFirst(l, r) ==
    IF r \notin Range(l) THEN l
    ELSE LET k == CHOOSE i \in DOMAIN l :
                     l[i] = r /\ \A j \in 1..(i - 1) : l[j] # r
         IN  SubSeq(l, 1, k - 1) \o SubSeq(l, k + 1, Len(l))

\* signal.disconnect(receiver)
Disconnect ==
    /\ ops < MaxOps /\ ops' = ops + 1
    /\ \E s \in Signals, r \in Receivers :
        /\ receivers' = [receivers EXCEPT ![s] = WithoutFirst(@, r)]
        /\ sender_receivers_cache' = [sender_receivers_cache EXCEPT ![s] = NoCache]
    /\ notified' = NoSend /\ raised' = "none" /\ log' = <<>>
    /\ UNCHANGED <<collectorVars, factoryVars, threads, mute_module, muters, scopes>>

\* signal.send(sender)
Send ==
    /\ ops < MaxOps /\ ops' = ops + 1
    /\ \E s \in Signals :
        IF receivers[s] = <<>>
        THEN /\ notified' = [signal |-> s, receivers |-> <<>>]
             /\ UNCHANGED sender_receivers_cache
        ELSE IF sender_receivers_cache[s].cached
        THEN /\ notified' = [signal |-> s,
                             receivers |-> sender_receivers_cache[s].receivers]
             /\ UNCHANGED sender_receivers_cache
        ELSE /\ notified' = [signal |-> s, receivers |-> receivers[s]]
             /\ sender_receivers_cache' = [sender_receivers_cache EXCEPT ![s] =
                    [cached |-> TRUE, receivers |-> receivers[s]]]
    /\ raised' = "none" /\ log' = <<>>
    /\ UNCHANGED <<collectorVars, factoryVars, threads, mute_module, receivers, muters, scopes>>

NextSignals ==
    With \/ Invoke \/ Raise \/ Leave \/ Connect \/ Disconnect \/ Send

SpecSignals == InitSignals /\ [][NextSignals]_vars

-----------------------------------------------------------------------------
(* DjangoModelFactory and get_model.  The model class of the factory has   *)
(* the fields slug (unique) and text; its manager is modelled by what      *)
(* Django's QuerySet does with the rows of one table: get returns the one  *)
(* row that matches, raises DoesNotExist when none does and                *)
(* MultipleObjectsReturned when several do; create inserts a row, with ''  *)
(* for a field that was not given, and raises IntegrityError when a row    *)
(* has the same value in a unique field; get_or_create returns the row get *)
(* finds, and when get finds none creates one, looking again and raising   *)
(* the IntegrityError of the create when that fails.  Of the base Factory, *)
(* whose _generate calls _create (create strategy) and then                *)
(* _after_postgeneration, only this order of the calls is modelled.        *)

\* the modules that define DjangoModelFactory and get_model
FactoryModules == {"django.py", "django/base.py"}

\* the fields of the model and those declared unique=True
Fields == {"slug", "text"}
UniqueFields == {"slug"}

\* the value a field takes when create is not given one
Blank == ""

\* the values the callers pass for a field
ValuesOf(k) == IF k = "slug" THEN {"a", "b"} ELSE {"x"}

\* the dicts with keys among keys: params and kwargs
Dicts(keys) ==
    UNION {{d \in [S -> UNION {ValuesOf(k) : k \in keys}] :
                \A k \in S : d[k] \in ValuesOf(k)} : S \in SUBSET keys}

\* the rows a table can hold, and the tables: no two rows agree on a
\* unique field
Rows == [Fields -> {Blank} \cup UNION {ValuesOf(k) : k \in Fields}]
IsRow(r) == \A k \in Fields : r[k] \in {Blank} \cup ValuesOf(k)
Collides(tbl, row) == \E r \in tbl : \E k \in UniqueFields : r[k] = row[k]
Tables ==
    {tbl \in SUBSET {r \in Rows : IsRow(r)} :
        \A r \in tbl : ~Collides(tbl \ {r}, r)}

\* no instance
NoRow == [k \in Fields |-> "None"]

\* what a call on the manager returned or raised, and the table after it
Returned(instance, tbl) == [raised |-> "none", instance |-> instance, table |-> tbl]
Raised(e, tbl) == [raised |-> e, instance |-> NoRow, table |-> tbl]

\* the dict d without the keys ks, the two dicts merged (e wins)
Without(d, ks) == [k \in DOMAIN d \ ks |-> d[k]]
Update(d, e) == e @@ d

\* manager.get(**kwargs)
manager_get(tbl, kwargs) ==
    LET found == {r \in tbl : \A k \in DOMAIN kwargs : r[k] = kwargs[k]}
    IN  IF found = {} THEN Raised("DoesNotExist", tbl)
        ELSE IF Cardinality(found) = 1
        THEN Returned(CHOOSE r \in found : TRUE, tbl)
        ELSE Raised("MultipleObjectsReturned", tbl)

\* manager.create(**kwargs)
manager_create(tbl, kwargs) ==
    LET row == [k \in Fields |-> IF k \in DOMAIN kwargs THEN kwargs[k] ELSE Blank]
    IN  IF Collides(tbl, row) THEN Raised("IntegrityError", tbl)
        ELSE Returned(row, tbl \cup {row})

\* manager.get_or_create(defaults=defaults, **kwargs)
manager_get_or_create(tbl, kwargs, defaults) ==
    LET found == manager_get(tbl, kwargs)
    IN  IF found.raised # "DoesNotExist" THEN found
        ELSE LET created == manager_create(tbl, Update(kwargs, defaults))
             IN  IF created.raised # "IntegrityError" THEN created
                 ELSE LET again == manager_get(tbl, kwargs)
                      IN  IF again.raised = "DoesNotExist" THEN created
                          ELSE again

\* a call made on the manager
ManagerCall(method, kwargs, defaults) ==
    [method |-> method, kwargs |-> kwargs, defaults |-> defaults]

\* the values of Meta.django_get_or_create: tuples of field names, none of
\* them 'defaults' (the assertion of _get_or_create)
GetOrCreateTuples ==
    {<<>>, <<"slug">>, <<"text">>, <<"slug", "text">>, <<"text", "slug">>}

\* DjangoOptions: the options of the factory class that are read here
DjangoOptions(django_get_or_create, database, skip_postgeneration_save) ==
    [django_get_or_create |-> django_get_or_create,
     database |-> database,
     skip_postgeneration_save |-> skip_postgeneration_save]

\* django.db.connections: the features of the connection of each alias
\* that supports_bulk_insert reads
connections ==
    [default |-> [has_bulk_insert |-> TRUE,
                  can_return_rows_from_bulk_insert |-> TRUE],
     legacy |-> [has_bulk_insert |-> TRUE,
                 can_return_rows_from_bulk_insert |-> FALSE]]

\* DjangoModelFactory.supports_bulk_insert() of factory/django.py;
\* factory/django/base.py has no create_batch of its own
supports_bulk_insert ==
    /\ factory_module = "django.py"
    /\ connections[meta.database].has_bulk_insert
    /\ connections[meta.database].can_return_rows_from_bulk_insert

\* what _create, _get_or_create and the other calls hand back to the base
\* factory: the exception raised or "none", the instance, and for the
\* properties the strategy of the _generate under way, the kwargs of
\* _create or the results of _after_postgeneration, whether
\* _after_postgeneration saved and warned, whether get_model ran the
\* loader, and the method of the factory that the caller called
Outcome(op, strategy, e, instance) ==
    [op |-> op, strategy |-> strategy, raised |-> e,
     instance |-> instance, args |-> EmptyDict, saved |-> FALSE,
     warned |-> FALSE, loaded |-> FALSE, called |-> "None"]

\* a loop that reads kwargs[field] and leaves it in kwargs
RECURSIVE key_fields_keep(_, _)
key_fields_keep(st, i) ==
    IF i > Len(meta.django_get_or_create) THEN st
    ELSE LET field == meta.django_get_or_create[i]
         IN  IF field \notin DOMAIN st.kwargs
             THEN [st EXCEPT !.raised = "FactoryError"]
             ELSE key_fields_keep(
                      [st EXCEPT
                         !.key_fields = Update(@, field :> st.kwargs[field])],
                      i + 1)

\* the loop of _get_or_create over django_get_or_create, from its i-th
\* field on: key_fields[field] = kwargs.pop(field), or FactoryError.
\* st holds key_fields, kwargs and the exception raised
RECURSIVE key_fields(_, _)
key_fields(st, i) ==
    IF i > Len(meta.django_get_or_create) THEN st
    ELSE LET field == meta.django_get_or_create[i]
         IN  IF field \notin DOMAIN st.kwargs
             THEN [st EXCEPT !.raised = "FactoryError"]
             ELSE key_fields(
                      [st EXCEPT
                         !.key_fields = Update(@, field :> st.kwargs[field]),
                         !.kwargs = Without(@, {field})],
                      i + 1)

\* the lookup of the fallback, of all the original params
get_or_create_params_all(params) == params

\* the lookup of the fallback: the original params that are listed in
\* django_get_or_create
get_or_create_params(params) ==
    [lookup \in {k \in DOMAIN params : k \in Range(meta.django_get_or_create)}
        |-> params[lookup]]

\* what _get_or_create does: the result of the manager's last call, and
\* the calls made on the manager
Done(result, calls) ==
    [raised |-> result.raised, instance |-> result.instance,
     table |-> result.table, calls |-> calls]

\* DjangoModelFactory._get_or_create(model_class, **kwargs)
_get_or_create(kwargs) ==
    LET st == key_fields([key_fields |-> EmptyDict, kwargs |-> kwargs,
                          raised |-> "none"], 1)
    IN  IF st.raised # "none" THEN Done(Raised(st.raised, table), <<>>)
        ELSE
        LET first == ManagerCall("get_or_create", st.key_fields, st.kwargs)
            e == manager_get_or_create(table, st.key_fields, st.kwargs)
        IN  IF e.raised # "IntegrityError" THEN Done(e, <<first>>)
            ELSE
            LET params == get_or_create_params(_original_params)
            IN  IF params = EmptyDict THEN Done(e, <<first>>)
                ELSE
                LET found == manager_get(table, params)
                    calls == <<first, ManagerCall("get", params, EmptyDict)>>
                IN  IF found.raised = "DoesNotExist" THEN Done(e, calls)
                    ELSE Done(found, calls)

\* DjangoModelFactory._create(model_class, **kwargs)
_create(kwargs) ==
    IF meta.django_get_or_create # <<>> THEN _get_or_create(kwargs)
    ELSE Done(manager_create(table, kwargs),
              <<ManagerCall("create", kwargs, EmptyDict)>>)

\* _lazy_load_get_model of factory/django.py: the import raises, or the
\* loaded callable is stored
_lazy_load_get_model(importable) ==
    IF importable
    THEN [raised |-> "none",
          _LAZY_LOADS |-> Update(_LAZY_LOADS, "get_model" :> "apps.get_model")]
    ELSE [raised |-> "ImportError", _LAZY_LOADS |-> _LAZY_LOADS]

\* _lazy_load_get_model of factory/django/base.py: without django, the
\* function _get_model, which raises import_failure, is stored
base_lazy_load_get_model(django, importable) ==
    IF django = "None"
    THEN [raised |-> "none",
          _LAZY_LOADS |-> Update(_LAZY_LOADS, "get_model" :> "_get_model")]
    ELSE _lazy_load_get_model(importable)

\* a get_model that loads on every call
get_model_reload(django, importable, registered) ==
    LET load == IF factory_module = "django.py"
                THEN _lazy_load_get_model(importable)
                ELSE base_lazy_load_get_model(django, importable)
    IN  [raised |-> IF load.raised # "none" THEN load.raised
                    ELSE IF load._LAZY_LOADS["get_model"] # "apps.get_model"
                    THEN "import_failure"
                    ELSE IF registered THEN "none" ELSE "LookupError",
         loaded |-> TRUE,
         _LAZY_LOADS |-> load._LAZY_LOADS]

\* get_model(app, model): django is the name django of the module (base.py),
\* importable whether the import in the loader succeeds, registered whether
\* the app registry has the model
get_model(django, importable, registered) ==
    LET absent == "get_model" \notin DOMAIN _LAZY_LOADS
        load == IF ~absent THEN [raised |-> "none", _LAZY_LOADS |-> _LAZY_LOADS]
                ELSE IF factory_module = "django.py"
                THEN _lazy_load_get_model(importable)
                ELSE base_lazy_load_get_model(django, importable)
    IN  [raised |-> IF load.raised # "none" THEN load.raised
                    ELSE IF load._LAZY_LOADS["get_model"] # "apps.get_model"
                    THEN "import_failure"
                    ELSE IF registered THEN "none" ELSE "LookupError",
         loaded |-> absent,
         _LAZY_LOADS |-> load._LAZY_LOADS]

\* the values of results: None, an empty dict, a dict with a result
Results == {"None", "{}", "{'hook': None}"}
Truthy(results) == results = "{'hook': None}"

\* an _after_postgeneration that does not read skip_postgeneration_save
_after_postgeneration_noskip(create, results) ==
    IF create /\ Truthy(results)
    THEN [warned |-> factory_module = "django.py", saved |-> TRUE]
    ELSE [warned |-> FALSE, saved |-> FALSE]

\* DjangoModelFactory._after_postgeneration(instance, create, results): the
\* DeprecationWarning is given to a filter that does not raise it;
\* factory/django/base.py has neither the option nor the warning
_after_postgeneration(create, results) ==
    IF factory_module = "django.py"
    THEN IF create /\ Truthy(results) /\ ~meta.skip_postgeneration_save
         THEN [warned |-> TRUE, saved |-> TRUE]
         ELSE [warned |-> FALSE, saved |-> FALSE]
    ELSE IF create /\ Truthy(results)
         THEN [warned |-> FALSE, saved |-> TRUE]
         ELSE [warned |-> FALSE, saved |-> FALSE]

\* the strategies of a factory call
Strategies == {"build", "create"}

\* no suppress_autotime is in use
InitNoAutotime ==
    /\ local_fields = EmptyDict
    /\ suppressed = <<>>

\* a factory class is declared for the model, whose table holds any rows
InitFactory ==
    /\ InitNoCollector
    /\ pc = "factory"
    /\ log = <<>>
    /\ InitNoSignals
    /\ InitNoAutotime
    /\ factory_module \in FactoryModules
    /\ _LAZY_LOADS = EmptyDict
    /\ \E t \in GetOrCreateTuples, database \in DOMAIN connections,
          skip \in BOOLEAN :
          /\ factory_module = "django/base.py" => ~skip /\ database = "default"
          /\ meta = DjangoOptions(t, database, skip)
    /\ _original_params = EmptyDict
    /\ table \in Tables
    /\ manager_calls = <<>>
    /\ outcome = NoOutcome

\* get_model(app, model), called between two factory calls
GetModel ==
    /\ pc = "factory"
    /\ \E django \in {"None", "module"}, importable, registered \in BOOLEAN :
          LET r == get_model(django, importable, registered)
          IN  /\ _LAZY_LOADS' = r._LAZY_LOADS
              /\ outcome' = [Outcome("get_model", "None", r.raised, NoRow)
                                EXCEPT !.loaded = r.loaded]
    /\ manager_calls' = <<>>
    /\ UNCHANGED <<collectorVars, log, threads, signalVars, factory_module,
                   meta, _original_params, table, local_fields, suppressed>>

\* the caller calls build(**params) or create(**params): create, where
\* supports_bulk_insert(), calls create_batch(1, **params), which builds.
\* Then DjangoModelFactory._generate(strategy, params), up to the call of
\* the base factory
Generate ==
    /\ pc = "factory" /\ pc' = "generate"
    /\ \E called \in Strategies, params \in Dicts(Fields) :
          LET strategy == IF called = "create" /\ supports_bulk_insert
                          THEN "build" ELSE called
          IN  /\ _original_params' = params
              /\ outcome' = [Outcome("_generate", strategy, "none", NoRow)
                                 EXCEPT !.called = called]
    /\ manager_calls' = <<>>
    /\ UNCHANGED <<schema, cls, pk, ref, models_to_create, data,
                   has_default_factory, dependencies, bucket, exc, todo,
                   frames, call, log, threads, signalVars, factory_module,
                   _LAZY_LOADS, meta, table, local_fields, suppressed>>

\* the base factory instantiates: with the create strategy it calls
\* _create(model_class, **kwargs), with the build strategy the model class
Instantiate ==
    /\ pc = "generate"
    /\ \E kwargs \in Dicts(Fields) :
          IF outcome.strategy = "create"
          THEN LET r == _create(kwargs)
               IN  /\ table' = r.table
                   /\ manager_calls' = r.calls
                   /\ outcome' = [Outcome("_create", outcome.strategy,
                                          r.raised, r.instance)
                                      EXCEPT !.args = kwargs,
                                             !.called = outcome.called]
                   /\ pc' = IF r.raised = "none" THEN "postgeneration"
                            ELSE "factory"
          ELSE /\ outcome' = [Outcome("_build", outcome.strategy, "none",
                                      manager_create({}, kwargs).instance)
                                  EXCEPT !.args = kwargs,
                                         !.called = outcome.called]
               /\ pc' = "postgeneration"
               /\ UNCHANGED <<table, manager_calls>>
    /\ UNCHANGED <<schema, cls, pk, ref, models_to_create, data,
                   has_default_factory, dependencies, bucket, exc, todo,
                   frames, call, log, threads, signalVars, factory_module,
                   _LAZY_LOADS, meta, _original_params, local_fields,
                   suppressed>>

\* the base factory calls _after_postgeneration(instance, create, results);
\* build_batch has then built the instance of create_batch
AfterPostgeneration ==
    /\ pc = "postgeneration"
    /\ pc' = IF outcome.called = "create" /\ outcome.strategy = "build"
             THEN "bulk" ELSE "factory"
    /\ \E results \in Results :
          LET r == _after_postgeneration(outcome.strategy = "create", results)
          IN  outcome' = [Outcome("_after_postgeneration", outcome.strategy,
                                  "none", outcome.instance)
                             EXCEPT !.args = results, !.saved = r.saved,
                                    !.warned = r.warned,
                                    !.called = outcome.called]
    /\ UNCHANGED <<schema, cls, pk, ref, models_to_create, data,
                   has_default_factory, dependencies, bucket, exc, todo,
                   frames, call, log, threads, signalVars, factory_module,
                   _LAZY_LOADS, meta, _original_params, table, manager_calls,
                   local_fields, suppressed>>

\* manager.bulk_create(objs): the rows are inserted, or none is when one
\* of them has the value of a row in a unique field
manager_bulk_create(tbl, objs) ==
    IF \E i \in DOMAIN objs :
          \/ Collides(tbl, objs[i])
          \/ \E j \in DOMAIN objs : j # i /\ Collides({objs[j]}, objs[i])
    THEN Raised("IntegrityError", tbl)
    ELSE Returned(NoRow, tbl \cup Range(objs))

\* create_batch(1, **kwargs) after build_batch: the instance has no foreign
\* key and no pk, so collect and sort leave data = {model: [instance]},
\* and the loop calls bulk_create once; create returns the instance
BulkCreate ==
    /\ pc = "bulk" /\ pc' = "factory"
    /\ LET objs == <<outcome.instance>>
           r == manager_bulk_create(table, objs)
       IN  /\ table' = r.table
           /\ manager_calls' = <<ManagerCall("bulk_create", objs, EmptyDict)>>
           /\ outcome' = [Outcome("create_batch", outcome.strategy, r.raised,
                                  IF r.raised = "none" THEN outcome.instance
                                  ELSE NoRow)
                              EXCEPT !.called = outcome.called]
    /\ UNCHANGED <<schema, cls, pk, ref, models_to_create, data,
                   has_default_factory, dependencies, bucket, exc, todo,
                   frames, call, log, threads, signalVars, factory_module,
                   _LAZY_LOADS, meta, _original_params, local_fields,
                   suppressed>>

NextFactory ==
    GetModel \/ Generate \/ Instantiate \/ AfterPostgeneration \/ BulkCreate

SpecFactory == InitFactory /\ [][NextFactory]_vars

-----------------------------------------------------------------------------
(* suppress_autotime.  A field of model._meta.local_fields is modelled by  *)
(* its name and the attributes auto_now and auto_now_add it has; the       *)
(* with-blocks of suppress_autotime on the model nest, and each holds the  *)
(* original_values of its generator.                                       *)

\* the names of the local fields of the model, and a name that is no field
FieldNames == {"created", "updated", "name"}
NoField == "extra"

\* the attributes suppress_autotime looks for
AutoAttrs == {"auto_now", "auto_now_add"}

\* the attributes of a field: a field may have none, one or both
FieldAttrs == UNION {[S -> BOOLEAN] : S \in SUBSET AutoAttrs}

\* the first loop of suppress_autotime: what it stores in original_values
original_values(fields) ==
    [f \in {g \in FieldNames : g \in fields /\ DOMAIN local_fields[g] # {}}
        |-> local_fields[f]]

\* the first loop of suppress_autotime: the attributes it leaves
suppress(fields) ==
    [f \in FieldNames |->
        IF f \in fields THEN [attr \in DOMAIN local_fields[f] |-> FALSE]
        ELSE local_fields[f]]

\* a finally clause that puts back auto_now only
restore_auto_now(saved) ==
    [f \in FieldNames |->
        IF f \in DOMAIN saved
        THEN [attr \in DOMAIN local_fields[f] |->
                 IF attr \in DOMAIN saved[f] /\ attr = "auto_now"
                 THEN saved[f][attr] ELSE local_fields[f][attr]]
        ELSE local_fields[f]]

\* the finally clause of suppress_autotime: setattr(field, attr, value) for
\* every item of original_values
restore(saved) ==
    [f \in FieldNames |->
        IF f \in DOMAIN saved
        THEN [attr \in DOMAIN local_fields[f] |->
                 IF attr \in DOMAIN saved[f]
                 THEN saved[f][attr] ELSE local_fields[f][attr]]
        ELSE local_fields[f]]

\* the model has its fields, with any attributes, and no block is entered
InitAutotime ==
    /\ InitNoCollector
    /\ pc = "autotime"
    /\ log = <<>>
    /\ InitNoSignals
    /\ factory_module = "None"
    /\ _LAZY_LOADS = EmptyDict
    /\ meta = EmptyDict
    /\ _original_params = EmptyDict
    /\ table = {}
    /\ manager_calls = <<>>
    /\ outcome = NoOutcome
    /\ local_fields \in [FieldNames -> FieldAttrs]
    /\ suppressed = <<>>

\* with suppress_autotime(model, fields): up to the yield.  For the
\* properties the block keeps the fields it was given and the attributes
\* before it was entered
SuppressEnter ==
    /\ Len(suppressed) < MaxNesting
    /\ \E fields \in SUBSET (FieldNames \cup {NoField}) :
          /\ local_fields' = suppress(fields)
          /\ suppressed' = <<[fields |-> fields,
                              original_values |-> original_values(fields),
                              before |-> local_fields]>> \o suppressed
    /\ outcome' = Outcome("yield", "None", "none", NoRow)
    /\ UNCHANGED <<collectorVars, log, threads, signalVars, factory_module,
                   _LAZY_LOADS, meta, _original_params, table, manager_calls>>

\* the code in the innermost block raises an exception
SuppressRaise ==
    /\ suppressed # <<>> /\ outcome.raised = "none"
    /\ outcome' = Outcome("raise", "None", "Exception", NoRow)
    /\ UNCHANGED <<collectorVars, log, threads, signalVars, factory_module,
                   _LAZY_LOADS, meta, _original_params, table, manager_calls,
                   local_fields, suppressed>>

\* the innermost block is left, by its end or by the exception on its way:
\* the finally clause runs, and the exception goes on
SuppressExit ==
    /\ suppressed # <<>>
    /\ local_fields' = restore(Head(suppressed).original_values)
    /\ suppressed' = Tail(suppressed)
    /\ outcome' = Outcome("finally", "None", outcome.raised, NoRow)
    /\ UNCHANGED <<collectorVars, log, threads, signalVars, factory_module,
                   _LAZY_LOADS, meta, _original_params, table, manager_calls>>

NextAutotime == SuppressEnter \/ SuppressRaise \/ SuppressExit

SpecAutotime == InitAutotime /\ [][NextAutotime]_vars

-----------------------------------------------------------------------------
(* Vocabulary of the properties *)

Count(seq, o) == Cardinality({k \in DOMAIN seq : seq[k] = o})

RECURSIVE Occurrences(_, _)
Occurrences(d, o) ==
    IF d = <<>> THEN 0 ELSE Count(Head(d).objs, o) + Occurrences(Tail(d), o)

InData(o) == \E i \in DOMAIN data : o \in Range(data[i].objs)

\* no instance can be reached from itself through foreign keys
InstanceAcyclic ==
    \A o \in Objs : o \notin Closure(ref, Targets(ref, o))

AllUnsaved == \A o \in Objs : ~pk[o]

\* collect has ended (by returning or by raising) and nothing else was done
CollectEnded == pc = "sort" \/ (pc = "raised" /\ exc = "TypeError")

\* sort has just returned
SortReturned == pc = "insert" /\ bucket = 1

\* sort returned at the end of its loop, not from inside it
SortSucceeded == SortReturned /\ ~has_default_factory

RECURSIVE TransitiveClosure(_)
TransitiveClosure(R) ==
    LET R2 == R \cup {<<p[1][1], p[2][2]>> : p \in {q \in R \X R : q[1][2] = q[2][1]}}
    IN  IF R2 = R THEN R ELSE TransitiveClosure(R2)

\* bucket a holds an instance whose non-nullable foreign key is an instance
\* held by bucket b
BucketNeeds(a, b) ==
    \E o \in Range(data[a].objs) : \E r \in DOMAIN ref[o] :
        /\ ~schema.fks[cls[o]][r].null
        /\ ref[o][r] # NoneObj
        /\ ref[o][r] \in Range(data[b].objs)

Item(m, objs) == [model |-> m, objs |-> objs]

-----------------------------------------------------------------------------
(* C1: for an acyclic reference graph of unsaved records, collect followed *)
(* by sort completes and leaves every table after all the tables it        *)
(* non-nullably depends on; r1:R referencing p1:P gives P -> [p1],         *)
(* R -> [r1] in that order.                                                *)
C1_CollectSortOrdersTables ==
    (AllUnsaved /\ InstanceAcyclic) =>
        /\ exc # "TypeError"
        /\ SortReturned =>
             \A a, b \in DOMAIN data : (a # b /\ BucketNeeds(a, b)) => b < a
        /\ (SortReturned /\ schema = SchemaPRS /\ cls = <<"R", "P">>
              /\ ref = <<<<2>>, <<>>>>) =>
             data = <<Item("P", <<2>>), Item("R", <<1>>)>>

(* C2: in create_batch, when bulk_create is called for a bucket, every     *)
(* record a record of that bucket references through a foreign key has a   *)
(* pk, for any acyclic graph of built instances.                           *)
C2_BulkCreateAfterReferenced ==
    (InstanceAcyclic /\ pc = "insert" /\ bucket <= Len(data)) =>
        UnsavedRelated(data[bucket].objs) = {}

(* C3: after collect (and after sort) every collected record occurs        *)
(* exactly once in the whole of data, also when two records of the batch   *)
(* reference the same record.                                              *)
C3_RecordOccursOnce ==
    (pc = "sort" \/ SortReturned) =>
        \A o \in Objs : InData(o) => Occurrences(data, o) = 1

(* C4: after collect, every record without a pk that can be reached from   *)
(* the input records through foreign keys, nullable or not, is in data,    *)
(* for models with any number of foreign keys.                             *)
C4_CollectReachesAll ==
    CollectEnded => \A o \in Objs : ~pk[o] => InData(o)

(* C5: a nullable foreign key never adds an edge to dependencies: every    *)
(* edge comes from a non-nullable foreign key of its model; and when       *)
(* TableA references TableB only nullably and TableB references TableA     *)
(* non-nullably, sort succeeds with TableA before TableB.                  *)
EdgeFromNonNullable(e) ==
    \E m \in ModelsOf(schema) : \E r \in DOMAIN schema.fks[m] :
        /\ concrete_model(m) = e[1]
        /\ concrete_model(schema.fks[m][r].to) = e[2]
        /\ ~schema.fks[m][r].null

C5_NullableAddsNoEdge ==
    /\ \A e \in dependencies : EdgeFromNonNullable(e)
    /\ (SortReturned /\ schema = SchemaAB(TRUE)) =>
          /\ ~has_default_factory
          /\ (HasKey(data, "TableA") /\ HasKey(data, "TableB")) =>
                IndexOf(data, "TableA") < IndexOf(data, "TableB")
(* C6: when the dependency graph contains a cycle, sort returns without    *)
(* raising and leaves data as it was: the same tables in the same order    *)
(* with the same record lists.                                             *)
HasCycle(deps) == \E e \in TransitiveClosure(deps) : e[1] = e[2]

C6_SortOnCycleLeavesData ==
    [][(pc = "sort" /\ HasCycle(dependencies)) =>
          (data' = data /\ exc' = "none" /\ pc' = "insert")]_vars

\* sort has returned on TableA and TableB depending on each other, both
\* through a non-nullable foreign key
C6_Witness ==
    /\ SortReturned
    /\ schema = SchemaAB(FALSE)
    /\ {<<"TableA", "TableB">>, <<"TableB", "TableA">>} \subseteq dependencies
    /\ Len(data) >= 2

(* C7: in the result of collect then sort, on any reference graph: if      *)
(* table A depends on table B and B does not transitively depend on A,     *)
(* then B's bucket comes before A's.                                       *)
C7_DependencyPrecedes ==
    SortReturned =>
        \A a, b \in DOMAIN data :
            LET A == concrete_model(data[a].model)
                B == concrete_model(data[b].model)
            IN  (/\ <<A, B>> \in dependencies
                 /\ <<B, A>> \notin TransitiveClosure(dependencies)) => b < a

(* C8: a self-referencing table, with no cycle among the instances and no  *)
(* cycle among different tables, does not make sort fail.                  *)
C8_SelfReferenceSorts ==
    (/\ SortReturned
     /\ InstanceAcyclic
     /\ \E e \in dependencies : e[1] = e[2]
     /\ \A e \in TransitiveClosure(dependencies) :
            <<e[2], e[1]>> \in TransitiveClosure(dependencies) => e[1] = e[2])
        => ~has_default_factory

(* C9: for a diamond (a DeleteBottom referencing a B1 and a B2 that both   *)
(* reference the same DeleteTop) collect completes without error, the      *)
(* shared record is once in its bucket and the dependency graph holds      *)
(* exactly the four edges of the diamond.                                  *)
IsDiamond ==
    /\ schema = SchemaDelete
    /\ cls = <<"DeleteBottom", "DeleteTop", "B1", "B2">>
    /\ ref = <<<<3, 4>>, <<>>, <<2>>, <<2>>>>
    /\ models_to_create = <<1>>

C9_DiamondCollected ==
    (IsDiamond /\ pc # "collect") =>
        /\ exc # "TypeError"
        /\ HasKey(data, "DeleteTop") /\ GetItem(data, "DeleteTop") = <<2>>
        /\ dependencies = {<<"DeleteBottom", "B1">>, <<"DeleteBottom", "B2">>,
                           <<"B1", "DeleteTop">>, <<"B2", "DeleteTop">>}

(* C10: when m1 of TableM references the unsaved r1 and r2 of TableR       *)
(* through two foreign keys, collect([m1]) puts both in TableR's bucket    *)
(* and sort gives the order TableR, TableM.                                *)
IsTwoFK ==
    /\ schema = SchemaTwoFK
    /\ cls = <<"TableM", "TableR", "TableR">>
    /\ ref = <<<<2, 3>>, <<>>, <<>>>>
    /\ models_to_create = <<1>>

C10_TwoForeignKeysCollected ==
    (IsTwoFK /\ pc # "collect") =>
        /\ exc # "TypeError"
        /\ HasKey(data, "TableR") /\ Range(GetItem(data, "TableR")) = {2, 3}
        /\ SortReturned => Keys(data) = <<"TableR", "TableM">>

-----------------------------------------------------------------------------
(* Vocabulary of the properties of the calls *)

\* the last step was a call of op
Made(op) == call.op = op

\* sort has returned from inside its loop
SortAborted == pc = "sorted" /\ has_default_factory

\* the tables the keys of d stand for
ConcreteKeys(d) == {concrete_model(d[i].model) : i \in DOMAIN d}

(* C11: after any sequence of add, add_dependency and collect calls, every *)
(* table that is the target of an edge in dependencies is a key of data.   *)
C11_TargetIsKey ==
    pc = "calls" => \A e \in dependencies : HasKey(data, e[2])

(* C11, amended: every table that is the target of an edge in dependencies *)
(* is the concrete model of a key of data, so a sort that gives up has met *)
(* a cycle, never a dependency no key stands for.                          *)
C11_TargetHasConcreteKey ==
    /\ \A e \in dependencies : e[2] \in ConcreteKeys(data)
    /\ SortAborted => HasCycle(dependencies)

\* add recorded an edge to a table of which it collected no record, and the
\* table has its key, with an empty list
C11_Witness ==
    /\ Made("add") /\ call.ret = <<>> /\ call.objs # <<>>
    /\ \E e \in dependencies : \E i \in DOMAIN data :
          /\ data[i].model = cls[call.objs[1]]
          /\ concrete_model(data[i].model) = e[2]
          /\ data[i].objs = <<>>

\* the bucket of model in d: what d[model] gives on a defaultdict(list)
Bucket(d, model) == IF HasKey(d, model) THEN GetItem(d, model) ELSE <<>>

\* the records of objs that have no pk and are not in the bucket bkt
NotYet(objs, bkt) ==
    LET Fresh(o) == ~pk[o] /\ o \notin Range(bkt)
    IN  SelectSeq(objs, Fresh)

(* C12: add(objs) returns exactly the input records that were not          *)
(* persisted and not in the table's bucket before the call, in input       *)
(* order: the empty list when objs is empty or when every input record is  *)
(* already collected or persisted.                                         *)
C12_AddReturnsNew ==
    [][Made("add")' =>
          /\ exc' = "none"
          /\ call'.ret = IF call'.objs = <<>> THEN <<>>
                         ELSE NotYet(call'.objs,
                                     Bucket(data, cls[call'.objs[1]]))]_vars

\* add was given a record it had collected before together with one it had
\* not, and returned the second only
C12_Witness ==
    /\ Made("add") /\ call.n = 2
    /\ Len(call.objs) = 2 /\ Len(call.ret) = 1
    /\ ~pk[call.objs[1]] /\ call.ret[1] = call.objs[2]

\* the records without a pk that can be reached from those of seen through
\* the foreign keys of records without a pk
RECURSIVE ReachUnsaved(_)
ReachUnsaved(seen) ==
    LET start == {o \in seen : ~pk[o]}
        more == start \cup {t \in UNION {Targets(ref, o) : o \in start} : ~pk[t]}
    IN  IF more = seen THEN seen ELSE ReachUnsaved(more)

\* the records held by the buckets of d
Collected(d) == UNION {Range(d[i].objs) : i \in DOMAIN d}

(* C13: a record that has a pk when it is passed to add or collect is      *)
(* never placed in data and its foreign keys are not followed (what a call *)
(* adds can be reached from its input through records without a pk), and   *)
(* a call given only such records raises nothing and leaves every bucket   *)
(* as it was; no record in data has a pk.                                  *)
C13_PersistedNotCollected ==
    [][(Made("add")' \/ Made("collect")') =>
          /\ \A o \in Collected(data') : ~pk'[o]
          /\ Collected(data') \ Collected(data)
                \subseteq ReachUnsaved(Range(call'.objs))
          /\ (\A k \in DOMAIN call'.objs : pk[call'.objs[k]]) =>
                /\ exc' = "none"
                /\ \A m \in ModelsOf(schema) :
                      Bucket(data', m) = Bucket(data, m)]_vars

\* collect was given a record with a pk that references a record without
\* one, and collected neither
C13_Witness ==
    /\ Made("collect") /\ call.objs # <<>> /\ exc = "none"
    /\ pk[call.objs[1]]
    /\ \E t \in Targets(ref, call.objs[1]) : ~pk[t] /\ t \notin Collected(data)

\* the edge add(objs, source) stands for: from the table of source to the
\* table of objs, the other way round under reverse_dependency
EdgeOf(made) ==
    LET s == concrete_model(made.source)
        t == concrete_model(cls[made.objs[1]])
    IN  IF made.reverse_dependency THEN <<t, s>> ELSE <<s, t>>

(* C14: add(objs, source, nullable) with non-empty objs records the edge   *)
(* from the table of source to the table of objs when source is given and  *)
(* nullable is false, also when none of objs is newly added; when source   *)
(* is None or nullable is true it leaves dependencies unchanged.           *)
C14_AddRecordsEdge ==
    [][(Made("add")' /\ call'.objs # <<>>) =>
          dependencies' =
              IF call'.source # NoneModel /\ ~call'.nullable
              THEN dependencies \cup {EdgeOf(call')}
              ELSE dependencies]_vars

\* add was given a source and only records it does not add, and recorded
\* the edge
C14_Witness ==
    /\ Made("add") /\ call.n = 1 /\ call.objs # <<>> /\ call.ret = <<>>
    /\ call.source # NoneModel /\ ~call.nullable /\ ~call.reverse_dependency
    /\ call.source # cls[call.objs[1]]
    /\ dependencies = {<<concrete_model(call.source),
                         concrete_model(cls[call.objs[1]])>>}

\* the edge add_dependency(model, dependency) stands for: between the
\* concrete models, the other way round under reverse_dependency
CanonicalEdge(made) ==
    LET m == concrete_model(made.source)
        d == concrete_model(made.dependency)
    IN  IF made.reverse_dependency THEN <<d, m>> ELSE <<m, d>>

(* C15: add_dependency(table, dependency_table) stores the edge between    *)
(* the concrete tables, so that a proxy model and its concrete model give  *)
(* the same edge, and is idempotent: a second call with the same arguments *)
(* leaves dependencies and data as the first call left them.               *)
C15_AddDependencyIdempotent ==
    [][Made("add_dependency")' =>
          /\ exc' = "none"
          /\ dependencies' = dependencies \cup {CanonicalEdge(call')}
          /\ SameArguments(call, call') =>
                (dependencies' = dependencies /\ data' = data)]_vars

\* add_dependency was called twice with the same arguments, a model and a
\* proxy model of another table: there is one edge, to the concrete model
C15_Witness ==
    /\ Made("add_dependency") /\ call.again
    /\ concrete_model(call.dependency) # call.dependency
    /\ concrete_model(call.source) # concrete_model(call.dependency)
    /\ ~call.reverse_dependency
    /\ dependencies = {<<concrete_model(call.source),
                         concrete_model(call.dependency)>>}
    /\ Keys(data) = <<call.dependency>>

(* C16: add and collect called with an empty sequence are no-ops: they     *)
(* raise nothing, add returns an empty list, and data and dependencies are *)
(* left unchanged (no new key, no new edge), whatever source and nullable  *)
(* are.                                                                    *)
C16_EmptyIsNoOp ==
    [][((Made("add")' \/ Made("collect")') /\ call'.objs = <<>>) =>
          /\ exc' = "none"
          /\ call'.ret = <<>>
          /\ data' = data
          /\ has_default_factory' = has_default_factory
          /\ dependencies' = dependencies]_vars

\* collect was called with an empty list and a source on a collector that
\* holds a record
C16_Witness ==
    /\ Made("collect") /\ call.objs = <<>>
    /\ call.source # NoneModel /\ ~call.nullable
    /\ exc = "none" /\ dependencies = {} /\ Collected(data) # {}

(* C17: collect terminates on every finite reference graph, also when the  *)
(* instances reference each other in a cycle or reference themselves: no  *)
(* call ends in RecursionError, and a call whose records are all in the    *)
(* bucket already or have a pk returns at once, without raising and        *)
(* without following a foreign key.                                        *)
C17_CollectTerminates ==
    [][Made("collect")' =>
          /\ exc' # "RecursionError"
          /\ (\/ call'.objs = <<>>
              \/ NotYet(call'.objs, Bucket(data, cls[call'.objs[1]])) = <<>>) =>
                /\ exc' = "none"
                /\ \A m \in ModelsOf(schema) : Bucket(data', m) = Bucket(data, m)]_vars

\* collect was given a record that references a second record which
\* references the first, and returned with both collected
C17_Witness ==
    /\ Made("collect") /\ exc = "none" /\ Len(call.objs) = 1
    /\ LET o == call.objs[1]
       IN  \E t \in Targets(ref, o) :
              /\ t # o /\ o \in Targets(ref, t)
              /\ ~pk[o] /\ ~pk[t]
              /\ {o, t} \subseteq Collected(data)

(* C18: collecting is idempotent: a second collect call with the same      *)
(* records on the same collector adds no record and no dependency edge:    *)
(* data and dependencies stay as the first call left them.                 *)
C18_CollectIdempotent ==
    [][(Made("collect")' /\ SameArguments(call, call')) =>
          /\ exc' = "none"
          /\ data' = data
          /\ dependencies' = dependencies]_vars

\* collect was called a second time with the same arguments, on a
\* collector that holds a record and the record it references, with an edge
\* between their tables
C18_Witness ==
    /\ Made("collect") /\ call.again /\ exc = "none" /\ call.objs # <<>>
    /\ call.source = NoneModel
    /\ LET o == call.objs[1]
       IN  \E t \in Targets(ref, o) :
              /\ cls[t] # cls[o]
              /\ Len(get_candidate_relations_to_delete(cls[o])) = 1
              /\ Keys(data) = <<cls[o], cls[t]>>
              /\ GetItem(data, cls[o]) = <<o>> /\ GetItem(data, cls[t]) = <<t>>
              /\ dependencies = {<<concrete_model(cls[o]), concrete_model(cls[t])>>}

\* s is the beginning of t
IsPrefix(s, t) == Len(s) <= Len(t) /\ SubSeq(t, 1, Len(s)) = s

(* C19: buckets are append-only and keep discovery order: across add,      *)
(* add_dependency and collect calls every key keeps its place and its      *)
(* records, in their order, at the beginning of its bucket; what add adds  *)
(* goes to the end of the bucket in input order; a successful sort keeps   *)
(* the set of tables and maps each table to the same list.                 *)
C19_BucketsAppendOnly ==
    [][/\ (Made("add")' \/ Made("add_dependency")' \/ Made("collect")') =>
             \A i \in DOMAIN data :
                /\ i \in DOMAIN data'
                /\ data'[i].model = data[i].model
                /\ IsPrefix(data[i].objs, data'[i].objs)
       /\ (Made("add")' /\ call'.objs # <<>>) =>
             LET model == cls[call'.objs[1]]
             IN  /\ Bucket(data', model) = Bucket(data, model) \o call'.ret
                 /\ \A m \in ModelsOf(schema) \ {model} :
                       Bucket(data', m) = Bucket(data, m)
       /\ Made("sort")' =>
             /\ Len(data') = Len(data)
             /\ Range(Keys(data')) = Range(Keys(data))
             /\ \A m \in ModelsOf(schema) : Bucket(data', m) = Bucket(data, m)]_vars

\* sort succeeded on two buckets that hold a record each, the table of the
\* second depending on the table of the first
C19_Witness ==
    /\ Made("sort") /\ ~has_default_factory /\ exc = "none"
    /\ Len(data) = 2
    /\ data[1].objs # <<>> /\ data[2].objs # <<>>
    /\ dependencies = {<<concrete_model(data[2].model),
                         concrete_model(data[1].model)>>}

\* the instances a create_batch call works on: those it built and those
\* they reach
Mine == Closure(ref, Range(models_to_create))

\* the foreign keys among these instances, as edges between their tables
MyEdges ==
    {<<concrete_model(cls[o]), concrete_model(cls[t])>> :
        o \in Mine, t \in Mine} \cap
    UNION {{<<concrete_model(cls[o]), concrete_model(cls[t])>> :
                t \in Targets(ref, o)} : o \in Mine}

(* C20: every create_batch call builds its own Collector: the records it   *)
(* collects, the tables they are under, the dependency edges and the       *)
(* records it inserts come from the instances built in that call and those *)
(* they reference, never from what an earlier call or a call that waits    *)
(* has collected.                                                          *)
C20_OwnCollector ==
    [][/\ (pc = "collect" /\ pc' # "collect") =>
             /\ Collected(data') \subseteq Mine
             /\ Range(Keys(data')) \subseteq {cls[o] : o \in Mine}
             /\ dependencies' \subseteq MyEdges
       /\ (pc = "insert" /\ pc' = "insert") =>
             {o \in Objs : pk'[o] /\ ~pk[o]} \subseteq Mine']_vars

\* a create_batch called by a receiver has collected its records while the
\* call that waits holds other records in its Collector
C20_Witness ==
    /\ pc = "sort" /\ frames # <<>>
    /\ Collected(data) # {}
    /\ Collected(Head(frames).data) # {}
    /\ Collected(data) \cap Collected(Head(frames).data) = {}
    /\ dependencies # Head(frames).dependencies

-----------------------------------------------------------------------------
(* Threads on one Collector *)

\* threads t and u have each computed their lookup before the other's
\* extend
Interleaved(t, u) ==
    /\ t # u
    /\ u \notin threads[t].extended
    /\ t \notin threads[u].extended

\* thread t has extended before thread u has computed its lookup
Sequential(t, u) == t # u /\ t \in threads[u].extended

(* C21: the Collector takes no lock.  When two add calls for the same      *)
(* table have both computed their lookup before either has extended the   *)
(* bucket, a record without a pk that both were given and that the bucket  *)
(* did not hold is in the bucket twice once both have extended.  When one  *)
(* call has extended before the other computes its lookup, and no other    *)
(* thread adds the record, a record each was given once is in the bucket   *)
(* once.                                                                   *)
C21_InterleavedAddDuplicates ==
    \A t \in DOMAIN threads, u \in DOMAIN threads, r \in Objs :
        ( /\ {t, u} \subseteq Extended
          /\ threads[t].model = threads[u].model
          /\ ~pk[r]
          /\ r \in Range(threads[t].objs) \cap Range(threads[u].objs)
          /\ r \notin threads[t].lookup )
        =>
        /\ (Interleaved(t, u) /\ r \notin threads[u].lookup) =>
              Count(Bucket(data, threads[t].model), r) >= 2
        /\ ( /\ Sequential(t, u)
             /\ Count(threads[t].objs, r) = 1
             /\ Count(threads[u].objs, r) = 1
             /\ \A v \in DOMAIN threads \ {t, u} :
                   r \notin Range(threads[v].new_objs) ) =>
              Count(Bucket(data, threads[t].model), r) = 1

\* two interleaved add([r]) calls have both returned and r is in its bucket
\* twice
C21_Witness ==
    \E t \in DOMAIN threads, u \in DOMAIN threads :
        /\ Interleaved(t, u)
        /\ threads[t].pc = "returned" /\ threads[u].pc = "returned"
        /\ Len(threads[t].objs) = 1 /\ threads[u].objs = threads[t].objs
        /\ threads[t].ret = threads[t].objs /\ threads[u].ret = threads[t].objs
        /\ Bucket(data, threads[t].model) = threads[t].objs \o threads[t].objs

-----------------------------------------------------------------------------
(* Logging *)

(* C22: when sort makes a full pass over the unsorted tables without       *)
(* ordering any of them it logs the condition before it returns: once sort *)
(* has returned, a record was given to the logger exactly when sort gave   *)
(* up.                                                                     *)
C22_SortAbortLogs ==
    pc = "sorted" => (SortAborted <=> log # <<>>)

-----------------------------------------------------------------------------
(* mute_signals *)

\* the signals the object of the with-block sc lists
Listed(ms, sc) == Range(ms[sc.obj].signals)

\* the innermost with-block is being entered, is being left
Entering == Len(scopes') > Len(scopes)
Leaving == Len(scopes') < Len(scopes)

\* the list s ends with the list t
IsSuffix(t, s) ==
    /\ Len(t) <= Len(s)
    /\ SubSeq(s, Len(s) - Len(t) + 1, Len(s)) = t

(* C23: for every tuple of signals given to mute_signals and every way of  *)
(* leaving the with-block, after __exit__ each listed signal has the       *)
(* receivers it had just before __enter__, in the same order, none lost    *)
(* and none twice, and an exception raised in the block goes on.           *)
C23_ReceiversRestored ==
    [][Leaving =>
          /\ \A s \in Listed(muters, Head(scopes)) :
                receivers'[s] = Head(scopes).before[s]
          /\ raised' = raised]_vars

(* C24: right after __enter__ every listed signal has an empty list of     *)
(* receivers and every other signal has the list it had; a send made in    *)
(* the with-block on a listed signal calls no receiver but those connected *)
(* in the block.                                                           *)
C24_EnterMutesListed ==
    [][/\ Entering =>
             \A s \in Signals :
                receivers'[s] = IF s \in Listed(muters', Head(scopes'))
                                THEN <<>> ELSE receivers[s]
       /\ notified' # NoSend =>
             \A i \in DOMAIN scopes :
                notified'.signal \in Listed(muters, scopes[i]) =>
                   \A r \in Range(notified'.receivers) :
                      <<notified'.signal, r>> \in scopes[i].since]_vars

\* a send in a with-block that lists the signal has called no receiver,
\* while the signal had receivers before the block, which are in the cache
\* still, and the other signal has kept its receivers
C24_Witness ==
    /\ scopes # <<>>
    /\ notified.signal \in Listed(muters, Head(scopes))
    /\ notified.receivers = <<>>
    /\ Len(Head(scopes).before[notified.signal]) = 2
    /\ \E s \in Signals \ Listed(muters, Head(scopes)) :
          receivers[s] # <<>> /\ receivers[s] = Head(scopes).before[s]

(* C25: a decorated callable enters a copy of the mute_signals object on   *)
(* each call, so when the outermost of nested calls of decorated callables *)
(* returns or raises, each signal it lists has its original receivers      *)
(* back: the list ends with them, after what was connected meanwhile.      *)
C25_DecoratedRestores ==
    [][(Leaving /\ scopes' = <<>> /\ Head(scopes).decorated
                /\ ~Head(scopes).with_inside) =>
          \A s \in Listed(muters, Head(scopes)) :
             IsSuffix(Head(scopes).before[s], receivers'[s])]_vars

\* a step in which the base factory called _create, and one in which the
\* manager's get_or_create, called by _get_or_create, raised IntegrityError
CreateStep ==
    pc = "generate" /\ outcome.strategy = "create" /\ outcome'.op = "_create"
IntegrityRaised ==
    /\ CreateStep
    /\ manager_calls' # <<>>
    /\ manager_calls'[1].method = "get_or_create"
    /\ manager_get_or_create(table, manager_calls'[1].kwargs,
                             manager_calls'[1].defaults).raised = "IntegrityError"

\* the original params that are listed in django_get_or_create, and the
\* rows they match
ListedParams ==
    {k \in DOMAIN _original_params' : k \in Range(meta.django_get_or_create)}
MatchedRows ==
    {r \in table : \A k \in ListedParams : r[k] = _original_params'[k]}

\* C26, as stated: when manager.get_or_create raises IntegrityError,
\* _get_or_create returns the row that manager.get finds with the original
\* params listed in django_get_or_create, if there is such a param and such
\* a row, and in every other case raises the IntegrityError again.
C26_FallbackOrReraise ==
    [][IntegrityRaised =>
          IF ListedParams # {} /\ Cardinality(MatchedRows) = 1
          THEN outcome'.raised = "none" /\ outcome'.instance \in MatchedRows
          ELSE outcome'.raised = "IntegrityError"]_vars

\* C26, amended: when manager.get_or_create raises IntegrityError,
\* _get_or_create calls manager.get with exactly the original params listed
\* in django_get_or_create if there is one, and returns the row when one row
\* matches, lets MultipleObjectsReturned through when several match, and
\* raises the IntegrityError again when none matches; without such a param
\* it makes no second call and raises the IntegrityError again.
C26_FallbackReraiseOrMultiple ==
    [][IntegrityRaised =>
          /\ table' = table
          /\ IF ListedParams = {}
             THEN Len(manager_calls') = 1 /\ outcome'.raised = "IntegrityError"
             ELSE /\ Len(manager_calls') = 2
                  /\ manager_calls'[2] =
                        ManagerCall("get",
                                    [k \in ListedParams |-> _original_params'[k]],
                                    EmptyDict)
                  /\ CASE Cardinality(MatchedRows) = 0 ->
                              outcome'.raised = "IntegrityError"
                       [] Cardinality(MatchedRows) = 1 ->
                              /\ outcome'.raised = "none"
                              /\ outcome'.instance \in MatchedRows
                       [] OTHER ->
                              outcome'.raised = "MultipleObjectsReturned"]_vars

\* the fallback has returned the row that the one original param listed in
\* django_get_or_create matches, after a get_or_create with two lookup keys
C26_Witness ==
    /\ outcome.op = "_create" /\ outcome.raised = "none"
    /\ Len(manager_calls) = 2 /\ manager_calls[2].method = "get"
    /\ DOMAIN manager_calls[2].kwargs # DOMAIN manager_calls[1].kwargs
    /\ outcome.instance \in table

C28_SaveIffCreateResultsNoSkip ==
    [][(pc = "postgeneration" /\ outcome'.op = "_after_postgeneration") =>
          (outcome'.saved <=>
              /\ outcome.strategy = "create"
              /\ outcome'.args = "{'hook': None}"
              /\ ~meta.skip_postgeneration_save)]_vars

\* with skip_postgeneration_save set, a create call whose hooks produced a
\* result was not saved
C28_Witness ==
    /\ outcome.op = "_after_postgeneration" /\ outcome.strategy = "create"
    /\ outcome.args = "{'hook': None}"
    /\ meta.skip_postgeneration_save /\ ~outcome.saved

\* a step that is a call of get_model
GetModelStep == pc = "factory" /\ outcome'.op = "get_model"

\* C30: get_model runs the loader exactly while 'get_model' is no key of
\* _LAZY_LOADS: with the key present it loads nothing and leaves the dict
\* as it is, a load that succeeds stores the key, and a load that raises
\* leaves the dict without it.
C30_LoadOnlyWhileAbsent ==
    [][GetModelStep =>
          IF "get_model" \in DOMAIN _LAZY_LOADS
          THEN ~outcome'.loaded /\ _LAZY_LOADS' = _LAZY_LOADS
          ELSE /\ outcome'.loaded
               /\ IF outcome'.raised = "ImportError"
                  THEN _LAZY_LOADS' = _LAZY_LOADS
                  ELSE "get_model" \in DOMAIN _LAZY_LOADS']_vars

\* a call of get_model has used the callable that an earlier call loaded
C30_Witness ==
    /\ outcome.op = "get_model" /\ ~outcome.loaded
    /\ _LAZY_LOADS = "get_model" :> "apps.get_model"
    /\ outcome.raised = "none"

\* a step that enters a suppress_autotime block, and one that leaves one
Suppressing == Len(suppressed') > Len(suppressed)
Unsuppressing == Len(suppressed') < Len(suppressed)

\* C29: in a suppress_autotime block auto_now and auto_now_add are False
\* on every local field named in fields that has them; leaving the block,
\* by its end or by an exception, gives every field the attributes it had
\* before the block was entered, nested blocks included; a field that is
\* not named keeps its attributes when the block is entered.
C29_SuppressAndRestore ==
    [][/\ Suppressing =>
            LET fields == Head(suppressed').fields
            IN  \A f \in FieldNames :
                   IF f \in fields
                   THEN /\ DOMAIN local_fields'[f] = DOMAIN local_fields[f]
                        /\ \A attr \in DOMAIN local_fields'[f] :
                              ~local_fields'[f][attr]
                   ELSE local_fields'[f] = local_fields[f]
       /\ Unsuppressing =>
            /\ local_fields' = Head(suppressed).before
            /\ outcome'.raised = outcome.raised
       /\ \A i \in DOMAIN suppressed' :
             \A f \in suppressed'[i].fields \cap FieldNames :
                \A attr \in DOMAIN local_fields'[f] :
                   ~local_fields'[f][attr]]_vars

\* an inner block was left by an exception, inside an outer block that has
\* suppressed a set auto_now of updated and does not name created, which
\* has auto_now_add set
C29_Witness ==
    /\ Len(suppressed) = 1
    /\ outcome.op = "finally" /\ outcome.raised = "Exception"
    /\ "created" \notin Head(suppressed).fields
    /\ "updated" \in DOMAIN Head(suppressed).original_values
    /\ "auto_now" \in DOMAIN Head(suppressed).original_values["updated"]
    /\ Head(suppressed).original_values["updated"]["auto_now"]
    /\ "auto_now_add" \in DOMAIN local_fields["created"]
    /\ local_fields["created"]["auto_now_add"]

\* C31: sort terminates: each pass of its loop but the one it returns on
\* appends a table to sorted_models, so a call makes no more passes than
\* data has tables.
C31_SortPassesBounded ==
    [][call'.op = "sort" =>
          LET st == sort_loop(Receiver, Keys(data), SortState)
          IN  /\ st.passes <= Len(data)
              /\ st.passes <= Len(st.sorted_models) + (IF st.found THEN 0 ELSE 1)
              /\ st.found <=> ~has_default_factory']_vars

\* sort has returned from its second pass: the first one ordered a table
\* that the table it could not order comes before in data
C31_Witness ==
    /\ call.op = "sort" /\ has_default_factory
    /\ Len(data) = 2
    /\ sort_loop(Receiver, Keys(data), SortState).passes = 2

\* C32: when create_batch has returned, every instance it returns was
\* passed to bulk_create exactly once: it is once in the buckets of data,
\* each of which the loop has passed to bulk_create.
C32_ReturnedWereInserted ==
    pc = "done" =>
        \A o \in Range(models_to_create) : Occurrences(data, o) = 1

\* a step in which create() has got its instance, or the exception: from
\* _create, or from create_batch on a database with bulk insert
CreateEnded ==
    \/ CreateStep /\ outcome.called = "create"
    \/ pc = "bulk" /\ outcome'.op = "create_batch"

\* the values of the fields listed in django_get_or_create that the
\* instance of the step is created with, and the rows that have them
KeyOfStep ==
    LET given == IF pc = "bulk" THEN outcome.instance ELSE outcome'.args
    IN  [k \in Range(meta.django_get_or_create) \cap DOMAIN given |-> given[k]]
RowsWithKey == {r \in table : \A k \in DOMAIN KeyOfStep : r[k] = KeyOfStep[k]}

\* C33: with django_get_or_create set, create() gets its instance from
\* manager.get_or_create on every database: when one row has the key
\* fields of the call, that row is returned and no row is inserted.
C33_CreateGetsOrCreates ==
    [][(/\ CreateEnded
        /\ meta.django_get_or_create # <<>>
        /\ DOMAIN KeyOfStep = Range(meta.django_get_or_create)) =>
          /\ manager_calls' # <<>>
          /\ manager_calls'[1].method = "get_or_create"
          /\ Cardinality(RowsWithKey) = 1 =>
                /\ outcome'.raised = "none"
                /\ outcome'.instance \in RowsWithKey
                /\ table' = table]_vars

(* Calls of one factory class that are under way together: a call of a     *)
(* SubFactory of the same class, made while the declarations of the outer  *)
(* call are evaluated between its _generate and its _create, or the call   *)
(* of another thread.  _original_params is an attribute of the class, so   *)
(* all of them write and read the same one.                                *)

\* a call that has not started; a call that has ended keeps whether its
\* _get_or_create handled IntegrityError and the _original_params it read
ReadyCall ==
    [pc |-> "ready", params |-> EmptyDict, handled |-> FALSE,
     read |-> EmptyDict]

\* the database has no bulk insert, so that create() calls _create
InitGenerating ==
    /\ schema = SchemaPRS
    /\ cls = <<>> /\ pk = <<>> /\ ref = <<>>
    /\ models_to_create = <<>>
    /\ data = <<>>
    /\ has_default_factory = TRUE
    /\ dependencies = {}
    /\ bucket = 1
    /\ exc = "none"
    /\ todo = <<>>
    /\ frames = <<>>
    /\ call = NoCall
    /\ log = <<>>
    /\ InitNoSignals
    /\ pc = "generating"
    /\ threads = [t \in Threads |-> ReadyCall]
    /\ factory_module = "django.py"
    /\ _LAZY_LOADS = EmptyDict
    /\ \E t \in GetOrCreateTuples : meta = DjangoOptions(t, "legacy", FALSE)
    /\ _original_params = EmptyDict
    /\ table \in Tables
    /\ manager_calls = <<>>
    /\ outcome = NoOutcome
    /\ local_fields = EmptyDict
    /\ suppressed = <<>>

\* _get_or_create(**kwargs) reaches its except clause: no listed field is
\* missing and manager.get_or_create raises IntegrityError
handles_IntegrityError(kwargs) ==
    /\ meta.django_get_or_create # <<>>
    /\ LET st == key_fields([key_fields |-> EmptyDict, kwargs |-> kwargs,
                             raised |-> "none"], 1)
       IN  /\ st.raised = "none"
           /\ manager_get_or_create(table, st.key_fields,
                                    st.kwargs).raised = "IntegrityError"

\* a call enters DjangoModelFactory._generate("create", params)
CallGenerate ==
    /\ pc = "generating"
    /\ \E t \in DOMAIN threads, params \in Dicts(Fields) :
          /\ threads[t].pc = "ready"
          /\ _original_params' = params
          /\ threads' = [threads EXCEPT ![t] = [ReadyCall EXCEPT
                                                  !.pc = "generate",
                                                  !.params = params]]
    /\ UNCHANGED <<collectorVars, log, signalVars, factory_module,
                   _LAZY_LOADS, meta, table, manager_calls, outcome,
                   local_fields, suppressed>>

\* the base factory of a call calls _create(model_class, **kwargs), the
\* kwargs being the params of the call and the values of the declarations
CallCreate ==
    /\ pc = "generating"
    /\ \E t \in DOMAIN threads, kwargs \in Dicts(Fields) :
          /\ threads[t].pc = "generate"
          /\ \A k \in DOMAIN threads[t].params :
                k \in DOMAIN kwargs /\ kwargs[k] = threads[t].params[k]
          /\ LET r == _create(kwargs)
             IN  /\ table' = r.table
                 /\ threads' = [threads EXCEPT
                                  ![t].pc = "done",
                                  ![t].handled = handles_IntegrityError(kwargs),
                                  ![t].read = _original_params]
    /\ UNCHANGED <<collectorVars, log, signalVars, factory_module,
                   _LAZY_LOADS, meta, _original_params, manager_calls,
                   outcome, local_fields, suppressed>>

\* the call returns to its caller
CallReturn ==
    /\ pc = "generating"
    /\ \E t \in DOMAIN threads :
          /\ threads[t].pc = "done"
          /\ threads' = [threads EXCEPT ![t] = ReadyCall]
    /\ UNCHANGED <<collectorVars, log, signalVars, factoryVars>>

NextGenerating == CallGenerate \/ CallCreate \/ CallReturn

SpecGenerating == InitGenerating /\ [][NextGenerating]_vars

\* C34: when _get_or_create of a call handles IntegrityError,
\* cls._original_params holds the params of the _generate of that call,
\* whatever other calls of the class are under way.
C34_OriginalParamsOfSameCall ==
    [][\A t \in DOMAIN threads :
          (/\ pc = "generating"
           /\ threads[t].pc = "generate" /\ threads'[t].pc = "done"
           /\ threads'[t].handled) =>
             threads'[t].read = threads[t].params]_vars

\* the events of log that have the model of the b-th bucket as sender
EventsOf(b) == SelectSeq(log, LAMBDA e : e.sender = data[b].model)

\* the bucket whose model is the sender of the i-th event of log
BucketOf(i) == IndexOf(data, log[i].sender)

\* bulk_create of the bucket that the loop of create_batch is at raised
InsertRaised == pc = "raised" /\ exc \in {"ValueError", "IntegrityError"}

\* C35: create_batch goes through the buckets in the order of data: for
\* each bucket it sends pre_save once per record, then calls bulk_create
\* once with the records of the bucket, then sends post_save once per
\* record, and nothing of a later bucket comes before the post_save of the
\* bucket; a bucket whose bulk_create raised has no post_save, and a
\* bucket that was not reached has no event.
C35_BucketEventsInOrder ==
    (pc \in {"insert", "done"} \/ InsertRaised) =>
       /\ \A i \in DOMAIN log : HasKey(data, log[i].sender)
       /\ \A i, j \in DOMAIN log : i < j => BucketOf(i) <= BucketOf(j)
       /\ \A b \in DOMAIN data :
             LET objs == data[b].objs
                 n == Len(objs)
                 events == EventsOf(b)
                 raising == InsertRaised /\ b = bucket
             IN  IF b > bucket \/ (b = bucket /\ ~raising)
                 THEN events = <<>>
                 ELSE /\ Len(events) = IF raising THEN n + 1 ELSE 2 * n + 1
                      /\ \A i \in 1..n :
                            /\ events[i].event = "pre_save"
                            /\ events[i].objs = <<objs[i]>>
                      /\ events[n + 1].event = "bulk_create"
                      /\ events[n + 1].objs = objs
                      /\ ~raising =>
                            \A i \in 1..n :
                               /\ events[n + 1 + i].event = "post_save"
                               /\ events[n + 1 + i].objs = <<objs[i]>>

\* create_batch has returned after it inserted two buckets, one of them
\* with two records
C35_Witness ==
    /\ pc = "done"
    /\ Len(data) >= 2
    /\ \E b \in DOMAIN data : Len(data[b].objs) = 2
    /\ Len(log) >= 7

\* C36: every record stored in data[T] is an instance of class T itself,
\* also when the values of a foreign key are instances of a model and of
\* a subclass of it.
C36_RecordsOfTheirTable ==
    \A b \in DOMAIN data :
       \A i \in DOMAIN data[b].objs : cls[data[b].objs[i]] = data[b].model

\* C37: after a sort that succeeded, when a model depends on a concrete
\* model, every bucket whose model has that concrete model (the model and
\* each of its proxies) comes before every bucket of the dependent model.
C37_AllKeysOfDependencyFirst ==
    (pc = "sorted" /\ call.op = "sort" /\ ~has_default_factory) =>
       \A e \in dependencies :
          \A s, r \in DOMAIN data :
             (/\ concrete_model(data[s].model) = e[1]
              /\ concrete_model(data[r].model) = e[2]) => r < s

(* A Collector that goes on being used after sort: any sequence of add,    *)
(* add_dependency and sort calls, sort among them at any place and any     *)
(* number of times, each call catching what it raises.  The instances are  *)
(* as build_batch leaves them, without a pk; add reads none of their        *)
(* foreign keys.                                                            *)

InitSorted ==
    /\ schema = SchemaProxy
    /\ \E n \in 1..MaxHeap :
        /\ cls \in ClassAssignments(schema, n, 0)
        /\ pk = [o \in 1..n |-> FALSE]
        /\ ref \in RefAssignments(schema, cls, [o \in 1..n |-> TRUE])
    /\ models_to_create = <<>>
    /\ data = NewCollector.data
    /\ has_default_factory = NewCollector.has_default_factory
    /\ dependencies = NewCollector.dependencies
    /\ exc = NewCollector.exc
    /\ pc = "sorting"
    /\ bucket = 1
    /\ todo = <<>>
    /\ frames = <<>>
    /\ call = NoCall
    /\ InitOther

\* collector.add(objs, source, nullable, reverse_dependency)
AddSorted ==
    /\ pc = "sorting" /\ call.n < MaxSortedCalls
    /\ \E objs \in ObjLists, source \in Sources, nullable \in BOOLEAN,
          reverse_dependency \in BOOLEAN :
        LET a == add(Receiver, objs, source, nullable, reverse_dependency)
        IN  Called(a.c, Call("add", objs, source, NoneModel, nullable,
                             reverse_dependency, a.new_objs, call.n + 1))
    /\ pc' = pc

\* collector.add_dependency(model, dependency, reverse_dependency)
AddDependencySorted ==
    /\ pc = "sorting" /\ call.n < MaxSortedCalls
    /\ \E model \in ModelsOf(schema), dependency \in ModelsOf(schema),
          reverse_dependency \in BOOLEAN :
        Called(add_dependency(Receiver, model, dependency, reverse_dependency),
               Call("add_dependency", <<>>, model, dependency, FALSE,
                    reverse_dependency, <<>>, call.n + 1))
    /\ pc' = pc

\* collector.sort()
SortSorted ==
    /\ pc = "sorting" /\ call.n < MaxSortedCalls
    /\ Called(sort(Receiver),
              Call("sort", <<>>, NoneModel, NoneModel, FALSE, FALSE, <<>>,
                   call.n + 1))
    /\ pc' = pc

NextSorted == AddSorted \/ AddDependencySorted \/ SortSorted

SpecSorted == InitSorted /\ [][NextSorted]_vars

\* C38: a sort() that follows a sort() leaves data as the first left it:
\* the same tables in the same order with the same records, whether the
\* first call succeeded or aborted.
C38_SortTwiceAsOnce ==
    [][(pc = "sorting" /\ call.op = "sort" /\ call'.op = "sort") =>
          /\ data' = data
          /\ has_default_factory' = has_default_factory
          /\ dependencies' = dependencies
          /\ exc' = "none"]_vars

\* a second sort has run after a sort that succeeded and moved a table
\* with a record behind the table it depends on
C38_Witness ==
    /\ pc = "sorting" /\ call.op = "sort" /\ call.again /\ call.n = 3
    /\ ~has_default_factory
    /\ Len(data) = 2
    /\ data[2].objs # <<>>
    /\ <<concrete_model(data[2].model), concrete_model(data[1].model)>>
          \in dependencies

\* the table an add or add_dependency call gives a bucket on a defaultdict
KeyOfCall(made) ==
    IF made.op = "add" THEN cls[made.objs[1]]
    ELSE IF made.reverse_dependency THEN made.source ELSE made.dependency

\* C39: after a sort that succeeded, data is a plain mapping: add for a
\* table that is a key appends the new records to its bucket, add for a
\* table that is no key raises and creates no bucket, and every
\* add_dependency raises and creates no bucket; after a sort that aborted,
\* add and add_dependency raise nothing and the table has its bucket.
C39_PlainMappingAfterSort ==
    [][(/\ pc = "sorting"
        /\ call'.op \in {"add", "add_dependency"}
        /\ call'.op = "add" => call'.objs # <<>>) =>
          LET made == call'
              key == KeyOfCall(made)
          IN  /\ (~has_default_factory /\ made.op = "add"
                    /\ HasKey(data, key)) =>
                    /\ Keys(data') = Keys(data)
                    /\ GetItem(data', key) = GetItem(data, key) \o made.ret
                    /\ \A o \in Range(made.objs) :
                          ~pk[o] => o \in Range(GetItem(data', key))
                    /\ exc' # "KeyError"
              /\ (~has_default_factory /\ made.op = "add"
                    /\ ~HasKey(data, key)) =>
                    exc' = "KeyError" /\ data' = data
              /\ (~has_default_factory /\ made.op = "add_dependency") =>
                    exc' = "AttributeError" /\ data' = data
              /\ (has_default_factory /\ call.op = "sort") =>
                    /\ exc' = "none"
                    /\ HasKey(data', key)
                    /\ has_default_factory']_vars

\* after a sort that succeeded, an add has appended a record to a bucket
\* that had one
C39_Witness ==
    /\ pc = "sorting" /\ call.op = "add" /\ call.n = 3
    /\ ~has_default_factory
    /\ exc = "none"
    /\ call.ret # <<>>
    /\ Len(GetItem(data, cls[call.objs[1]])) = 2

\* self.paused[s] of the object of the innermost with-block
PausedReceivers(s) ==
    LET paused == muters[Head(scopes).obj].paused
    IN  paused[CHOOSE i \in DOMAIN paused : paused[i].signal = s].receivers

\* C40: with mute_signals of factory/django.py, after __exit__ each listed
\* signal has the receivers it had at the end of the with-block, those
\* connected in it, followed by the receivers that __enter__ saved in
\* self.paused, which for a signal listed once are those it had before
\* __enter__; every receiver connected in the block and every saved one is
\* connected, and the other signals keep their receivers.
C40_ConnectedThenSaved ==
    [][(Leaving /\ mute_module = "django.py") =>
          \A s \in Signals :
             IF s \in Listed(muters, Head(scopes))
             THEN /\ HasSignal(muters[Head(scopes).obj].paused, s)
                  /\ receivers'[s] = receivers[s] \o PausedReceivers(s)
                  /\ Count(muters[Head(scopes).obj].signals, s) = 1 =>
                        PausedReceivers(s) = Head(scopes).before[s]
                  /\ \A r \in Receivers :
                        (<<s, r>> \in Head(scopes).since
                            /\ r \in Range(receivers[s])) =>
                           r \in Range(receivers'[s])
             ELSE receivers'[s] = receivers[s]]_vars

\* a with-block of factory/django.py has been left in which a receiver was
\* connected to a listed signal that had another receiver before: both are
\* connected, the new one first
C40_Witness ==
    /\ mute_module = "django.py"
    /\ scopes = <<>> /\ ops = 1
    /\ \E s \in Signals :
          /\ Len(receivers[s]) = 2
          /\ receivers[s][1] # receivers[s][2]
          /\ Len(log) = 1 /\ log[1].msg = "Restoring"
          /\ log[1].arg = <<receivers[s][2]>>

====
